---- MODULE Spec2Model ----
(***************************************************************************)
(* Model of the hpc-scheduler MCP server: the cluster registry             *)
(* (src/cluster_registry.py), the in-memory mock adapter                   *)
(* (src/backends/mock_adapter.py), the REST and exec adapters              *)
(* (src/backends/slurm_adapter.py, src/backends/flux_adapter.py) and the   *)
(* run_and_wait and list_jobs tools (src/tools).                           *)
(*                                                                         *)
(* Five groups of variables: the registry, the module-level state around   *)
(* it, the mock adapter, the REST and exec adapters, and run_and_wait.     *)
(* Each specification below drives one component and leaves the others at  *)
(* their initial value.                                                    *)
(***************************************************************************)
EXTENDS Integers, Sequences, FiniteSets, TLC

(***************************************************************************)
(* Bounds of the model.                                                    *)
(***************************************************************************)
MaxAdapters == 3
MaxGen == 6
MaxBatchGen == 8
MaxSpecLen == 5
MaxCommands == 3
MaxTimeoutMinutes == 2
MaxDurationLen == 3
MaxRegistries == 2
MaxResponseJobs == 3

(* The value Python calls None. *)
None == "None"

(***************************************************************************)
(*                          CLUSTER REGISTRY                               *)
(***************************************************************************)
VARIABLES
    configs,     \* ClusterRegistry.configs: cluster name -> configuration
    adapters,    \* ClusterRegistry.adapters: cluster name -> adapter object
    order,       \* insertion order of the keys of ClusterRegistry.adapters
    objs,        \* every adapter object constructed so far; an object's
                 \* identity is its index in this sequence
    closed,      \* identities of the adapters on which close() was invoked
    use_mock,    \* os.environ USE_MOCK_BACKENDS, lower-cased, = "true"
    closer,      \* the close_all() coroutine: its position and dict iterator
    regRet,      \* outcome of the registry operation that completed last
    first,       \* history: name -> first adapter constructed for it since
                 \* the cache was last cleared
    cleared,     \* history: identities removed from the cache by clear()
    racePc,      \* per thread: position inside get_adapter
    raceArg,     \* per thread: the cluster_name argument of its call
    raceObj,     \* per thread: the local variable `adapter`
    raceRet      \* per thread: outcome of its last completed get_adapter

regVars == <<configs, adapters, order, objs, closed, use_mock, closer,
             regRet, first, cleared, racePc, raceArg, raceObj, raceRet>>

(* Module-level state of cluster_registry.py and what surrounds it. *)
VARIABLES
    registry,    \* the global `_registry`: 0 is None, otherwise the
                 \* identity of a ClusterRegistry (the number of its
                 \* construction)
    created,     \* how many ClusterRegistry objects were constructed
    loaded,      \* the clusters of the configuration file _load_config reads
    tasks,       \* close_all() tasks handed to the event loop by
                 \* asyncio.create_task and not run yet
    globRet      \* outcome of the last get_registry() or reset_registry()

globalVars == <<registry, created, loaded, tasks, globRet>>

(***************************************************************************)
(*                             MOCK ADAPTER                                *)
(***************************************************************************)
VARIABLES
    mock_type,   \* MockAdapter.mock_type
    jobs,        \* MockAdapter.jobs: job id -> JobDetails
    job_counter, \* MockAdapter.job_counter
    mockRet,     \* the call that completed last and what it returned
    generated,   \* history: the ids _generate_job_id has returned, in order
    batchIn,     \* arguments of the submit_batch calls under study
    live         \* history: ids submit_job returned that no cancel_job call
                 \* has named since

mockVars == <<mock_type, jobs, job_counter, mockRet, generated, batchIn,
              live>>

(***************************************************************************)
(*                   REST (SLURM) AND EXEC (FLUX) ADAPTERS                 *)
(***************************************************************************)
VARIABLES
    backendJobs, \* the jobs the backend scheduler currently knows
    jwt_token,   \* SlurmAdapter.jwt_token
    realRet,     \* the adapter call that completed last and what it returned
    frame,       \* FluxAdapter.submit_job in progress: its position, its
                 \* locals and the return value or exception in flight
    execLog,     \* history: the commands the submit_job call in progress
                 \* has exec'd in the pod, in order, with what came of each
    reader       \* the stdin branch of _exec_flux_command: the stream and
                 \* the locals of its read loop

realVars == <<backendJobs, jwt_token, realRet, frame, execLog, reader>>

(***************************************************************************)
(*                         THE run_and_wait TOOL                           *)
(***************************************************************************)
VARIABLES
    now,         \* datetime.now(), in seconds
    waiter       \* run_and_wait in progress: its position and its locals

toolVars == <<now, waiter>>

vars == <<globalVars, regVars, mockVars, realVars, toolVars>>

(* Cluster names that a configuration file may define, and the names the   *)
(* callers ask for (one of them is never configured).                      *)
ConfigNames == {"slurm-local", "flux-local"}
QueryNames == ConfigNames \cup {"nonexistent-cluster"}

(* Values of the `type` key of a cluster configuration; "pbs" stands for   *)
(* any type that get_adapter does not know.                                *)
ClusterTypes == {"slurm", "flux", "mock", "pbs"}

(* auth.jwt_token of a configuration: absent or a secret.                  *)
AuthTokens == {None, "secret"}

Threads == {"t1", "t2"}

ConfigRecords ==
    [type : ClusterTypes, mock_type : {None}, jwt_token : AuthTokens]

(* _load_config: every entry of the file that has a name is stored under   *)
(* that name; a file with no clusters leaves the mapping empty.            *)
LoadedConfigs ==
    UNION {[S -> ConfigRecords] : S \in SUBSET ConfigNames}

Range(f) == {f[x] : x \in DOMAIN f}

EmptyMap == [x \in {} |-> None]

IdleCloser == [pc |-> "idle", size |-> 0, pos |-> 0, snap |-> {}]

NoRet == [op |-> "none"]

RegInit ==
    /\ configs \in LoadedConfigs
    /\ registry = 1
    /\ created = 1
    /\ loaded = configs
    /\ tasks = {}
    /\ globRet = NoRet
    /\ adapters = EmptyMap
    /\ order = <<>>
    /\ objs = <<>>
    /\ closed = {}
    /\ use_mock \in BOOLEAN
    /\ closer = IdleCloser
    /\ regRet = NoRet
    /\ first = EmptyMap
    /\ cleared = {}
    /\ racePc = [t \in Threads |-> "idle"]
    /\ raceArg = [t \in Threads |-> None]
    /\ raceObj = [t \in Threads |-> 0]
    /\ raceRet = [t \in Threads |-> NoRet]

(* MockAdapter.__init__: `self.job_counter = 1000` *)
InitialJobCounter == 1000

(* The registry when it is not the component under study: no cluster      *)
(* configured, nothing cached.                                             *)
RegIdle ==
    /\ configs = EmptyMap
    /\ registry = 0
    /\ created = 0
    /\ loaded = EmptyMap
    /\ tasks = {}
    /\ globRet = NoRet
    /\ adapters = EmptyMap
    /\ order = <<>>
    /\ objs = <<>>
    /\ closed = {}
    /\ use_mock = TRUE
    /\ closer = IdleCloser
    /\ regRet = NoRet
    /\ first = EmptyMap
    /\ cleared = {}
    /\ racePc = [t \in Threads |-> "idle"]
    /\ raceArg = [t \in Threads |-> None]
    /\ raceObj = [t \in Threads |-> 0]
    /\ raceRet = [t \in Threads |-> NoRet]

(* The mock adapter when it is not the component under study: as           *)
(* MockAdapter.__init__ leaves it.                                         *)
MockIdle ==
    /\ mock_type = "slurm"
    /\ jobs = EmptyMap
    /\ job_counter = InitialJobCounter
    /\ mockRet = NoRet
    /\ generated = <<>>
    /\ batchIn = NoRet
    /\ live = {}

(* The REST and exec adapters when they are not the component under study. *)
IdleFrame == [pc |-> "idle"]

IdleReader == [pc |-> "idle"]

RealIdle ==
    /\ backendJobs = {}
    /\ jwt_token = None
    /\ realRet = NoRet
    /\ frame = IdleFrame
    /\ execLog = <<>>
    /\ reader = IdleReader

(* run_and_wait when it is not the component under study. *)
ToolIdle ==
    /\ now = 0
    /\ waiter = [pc |-> "idle"]

(***************************************************************************)
(* get_adapter, split at the places where its code branches.               *)
(***************************************************************************)

(* `if cluster_name in self.adapters` *)
CacheHitNever(n) == FALSE

CacheHit(n) == n \in DOMAIN adapters

(* `if cluster_name not in self.configs` *)
Configured(n) == n \in DOMAIN configs

(* `available = ", ".join(self.configs.keys())`: the names the message     *)
(* lists, as the set of the joined keys.                                    *)
AvailableNothing == {}

Available == DOMAIN configs

NotFoundError(n) ==
    [op |-> "get_adapter", kind |-> "not_found", name |-> n,
     available |-> Available]

(* The if/elif chain that picks the adapter class; None is the final       *)
(* `else: raise Exception("Unknown cluster type ...")`.                     *)
AdapterClass(cluster_type, mock) ==
    IF mock THEN "MockAdapter"
    ELSE IF cluster_type = "slurm" THEN "SlurmAdapter"
    ELSE IF cluster_type = "flux" THEN "FluxAdapter"
    ELSE IF cluster_type = "mock" THEN "MockAdapter"
    ELSE None

(* `config["mock_type"] = cluster_type`, executed only in mock mode, on    *)
(* the dict stored in self.configs.                                         *)
TagConfig(cfg, mock) ==
    IF mock THEN [cfg EXCEPT !.mock_type = cfg.type] ELSE cfg

(* MockAdapter.__init__: `config.get("mock_type", "slurm")`.               *)
MockTypeOf(cfg) == IF cfg.mock_type = None THEN "slurm" ELSE cfg.mock_type

(* The object a constructor call builds.                                    *)
NewAdapter(cls, cfg, n) ==
    [cls |-> cls, name |-> n,
     mock_type |-> IF cls = "MockAdapter" THEN MockTypeOf(cfg) ELSE None]

(* SlurmAdapter.__init__ reads config["endpoint"], FluxAdapter.__init__    *)
(* reads config["namespace"], config["minicluster"] and loads the          *)
(* Kubernetes configuration: either may raise.  MockAdapter.__init__ does  *)
(* not.                                                                     *)
CtorOutcomes(cls) ==
    IF cls \in {"SlurmAdapter", "FluxAdapter"} THEN {"built", "raised"}
    ELSE {"built"}

(* `self.adapters[cluster_name] = adapter` on an insertion-ordered dict.   *)
CachePut(n, a) ==
    /\ adapters' = [x \in DOMAIN adapters \cup {n} |->
                       IF x = n THEN a ELSE adapters[x]]
    /\ order' = IF n \in DOMAIN adapters THEN order ELSE Append(order, n)

(* History: the first adapter constructed for a name since the last clear. *)
NoteFirst(n, a) ==
    first' = IF n \in DOMAIN first THEN first
             ELSE [x \in DOMAIN first \cup {n} |->
                       IF x = n THEN a ELSE first[x]]

(* ClusterRegistry.get_adapter, run without interruption (it has no await, *)
(* so under the event loop the whole call is one step).                     *)
GetAdapter(n) ==
    /\ UNCHANGED <<globalVars, mockVars, realVars, toolVars>>
    /\ UNCHANGED <<closed, use_mock, closer, cleared,
                   racePc, raceArg, raceObj, raceRet>>
    /\ IF CacheHit(n)
       THEN /\ regRet' = [op |-> "get_adapter", kind |-> "ok", name |-> n,
                          id |-> adapters[n], built |-> FALSE]
            /\ UNCHANGED <<configs, adapters, order, objs, first>>
       ELSE IF ~Configured(n)
       THEN /\ regRet' = NotFoundError(n)
            /\ UNCHANGED <<configs, adapters, order, objs, first>>
       ELSE LET cfg == TagConfig(configs[n], use_mock)
                cls == AdapterClass(configs[n].type, use_mock)
            IN  /\ configs' = [configs EXCEPT ![n] = cfg]
                /\ IF cls = None
                   THEN /\ regRet' = [op |-> "get_adapter",
                                      kind |-> "unknown_type", name |-> n]
                        /\ UNCHANGED <<adapters, order, objs, first>>
                   ELSE \E outcome \in CtorOutcomes(cls) :
                        IF outcome = "raised"
                        THEN /\ regRet' = [op |-> "get_adapter",
                                           kind |-> "ctor_raised", name |-> n]
                             /\ UNCHANGED <<adapters, order, objs, first>>
                        ELSE /\ Len(objs) < MaxAdapters
                             /\ objs' = Append(objs, NewAdapter(cls, cfg, n))
                             /\ CachePut(n, Len(objs) + 1)
                             /\ NoteFirst(n, Len(objs) + 1)
                             /\ regRet' = [op |-> "get_adapter", kind |-> "ok",
                                           name |-> n, id |-> Len(objs) + 1,
                                           built |-> TRUE]

(* ClusterRegistry.list_clusters: name -> config.get("type", "unknown").   *)
ListClusters ==
    /\ UNCHANGED <<globalVars, mockVars, realVars, toolVars>>
    /\ regRet' = [op |-> "list_clusters",
                  value |-> [n \in DOMAIN configs |-> configs[n].type]]
    /\ UNCHANGED <<configs, adapters, order, objs, closed, use_mock, closer,
                   first, cleared, racePc, raceArg, raceObj, raceRet>>

(* The copy get_cluster_info returns: auth.jwt_token masked when present.  *)
Redact(cfg) ==
    IF cfg.jwt_token = None THEN cfg ELSE [cfg EXCEPT !.jwt_token = "***"]

(* ClusterRegistry.get_cluster_info *)
GetClusterInfo(n) ==
    /\ UNCHANGED <<globalVars, mockVars, realVars, toolVars>>
    /\ regRet' = IF ~Configured(n)
                 THEN [op |-> "get_cluster_info", kind |-> "not_found",
                       name |-> n]
                 ELSE [op |-> "get_cluster_info", kind |-> "ok", name |-> n,
                       value |-> Redact(configs[n])]
    /\ UNCHANGED <<configs, adapters, order, objs, closed, use_mock, closer,
                   first, cleared, racePc, raceArg, raceObj, raceRet>>

(***************************************************************************)
(* close_all: `for adapter in self.adapters.values(): await adapter.close()`*)
(* then `self.adapters.clear()`.  MockAdapter.close, FluxAdapter.close and *)
(* the base close are `pass`: awaiting them never yields to the event loop.*)
(* SlurmAdapter.close awaits httpx's aclose(), where the coroutine is      *)
(* suspended and other tasks run.                                          *)
(***************************************************************************)
Suspends(a) == objs[a].cls = "SlurmAdapter"

(* The loop from iterator position pos up to its next suspension ("await") *)
(* or to the end of the dict ("stop"); cl collects the adapters closed.    *)
RECURSIVE RunClose(_, _)
RunClose(pos, cl) ==
    IF pos >= Len(order)
    THEN [pos |-> pos, closed |-> cl, end |-> "stop"]
    ELSE LET a == adapters[order[pos + 1]]
         IN  IF Suspends(a)
             THEN [pos |-> pos + 1, closed |-> cl \cup {a}, end |-> "await"]
             ELSE RunClose(pos + 1, cl \cup {a})

(* `self.adapters.clear()` *)
ClearKeepsCache == /\ adapters' = adapters
                   /\ order' = order

ClearCache == /\ adapters' = EmptyMap
              /\ order' = <<>>

(* One uninterrupted stretch of close_all starting at iterator position    *)
(* pos, for a dict iterator created when the dict held size entries.       *)
CloseStretch(pos, size, snap) ==
    LET r == RunClose(pos, closed)
    IN  /\ closed' = r.closed
        /\ IF r.end = "await"
           THEN /\ closer' = [pc |-> "awaiting", size |-> size,
                              pos |-> r.pos, snap |-> snap]
                /\ UNCHANGED <<adapters, order, regRet, first, cleared>>
           ELSE /\ closer' = IdleCloser
                /\ ClearCache
                /\ first' = EmptyMap
                /\ cleared' = cleared \cup Range(adapters)
                /\ regRet' = [op |-> "close_all", kind |-> "ok",
                              snap |-> snap]

(* close_all is called: the iterator is created and the loop runs to its   *)
(* first suspension.                                                       *)
CloseAllStart ==
    /\ UNCHANGED <<globalVars, mockVars, realVars, toolVars>>
    /\ closer.pc = "idle"
    /\ CloseStretch(0, Len(order), Range(adapters))
    /\ UNCHANGED <<configs, objs, use_mock, racePc, raceArg, raceObj, raceRet>>

(* close_all is resumed after an await.  The dict iterator first compares  *)
(* the dict's size with the size at its creation and raises RuntimeError   *)
(* ("dictionary changed size during iteration") when they differ.          *)
CloseAllResume ==
    /\ UNCHANGED <<globalVars, mockVars, realVars, toolVars>>
    /\ closer.pc = "awaiting"
    /\ IF Len(order) # closer.size
       THEN /\ closer' = IdleCloser
            /\ regRet' = [op |-> "close_all", kind |-> "RuntimeError",
                          snap |-> closer.snap]
            /\ UNCHANGED <<adapters, order, closed, first, cleared>>
       ELSE CloseStretch(closer.pos, closer.size, closer.snap)
    /\ UNCHANGED <<configs, objs, use_mock, racePc, raceArg, raceObj, raceRet>>

RegNext ==
    \/ \E n \in QueryNames : GetAdapter(n)
    \/ ListClusters
    \/ \E n \in QueryNames : GetClusterInfo(n)
    \/ CloseAllStart
    \/ CloseAllResume

Init ==
    /\ RegInit
    /\ MockIdle
    /\ RealIdle
    /\ ToolIdle

Spec == Init /\ [][RegNext]_vars


(***************************************************************************)
(* get_adapter called from several threads (the registry takes no lock).   *)
(* A thread can be preempted between the cache test, the construction and  *)
(* the store, so the call is three steps here.                             *)
(***************************************************************************)
InFlight(t, n) == racePc[t] # "idle" /\ raceArg[t] = n

(* History kept with a thread's result: the call began when the name was   *)
(* cached and no other thread was inside get_adapter for that name.        *)
BeganLate(t, n) ==
    /\ n \in DOMAIN adapters
    /\ \A u \in Threads \ {t} : ~InFlight(u, n)

(* Lines 94-103: the cache test and the configuration test.                *)
RaceCall(t, n) ==
    /\ UNCHANGED <<globalVars, mockVars, realVars, toolVars>>
    /\ racePc[t] = "idle"
    /\ IF CacheHit(n)
       THEN /\ raceRet' = [raceRet EXCEPT ![t] =
                   [op |-> "get_adapter", kind |-> "ok", name |-> n,
                    id |-> adapters[n], late |-> BeganLate(t, n)]]
            /\ UNCHANGED <<racePc, raceArg>>
       ELSE IF ~Configured(n)
       THEN /\ raceRet' = [raceRet EXCEPT ![t] = NotFoundError(n)]
            /\ UNCHANGED <<racePc, raceArg>>
       ELSE /\ racePc' = [racePc EXCEPT ![t] = "resolve"]
            /\ raceArg' = [raceArg EXCEPT ![t] = n]
            /\ raceRet' = [raceRet EXCEPT ![t] =
                   [op |-> "pending", late |-> BeganLate(t, n)]]
    /\ UNCHANGED <<configs, adapters, order, objs, closed, use_mock, closer,
                   regRet, first, cleared, raceObj>>

(* Lines 105-126: the class is chosen and the adapter constructed.         *)
RaceConstruct(t) ==
    /\ UNCHANGED <<globalVars, mockVars, realVars, toolVars>>
    /\ racePc[t] = "resolve"
    /\ LET n == raceArg[t]
           cfg == TagConfig(configs[n], use_mock)
           cls == AdapterClass(configs[n].type, use_mock)
       IN  /\ configs' = [configs EXCEPT ![n] = cfg]
           /\ IF cls = None
              THEN /\ raceRet' = [raceRet EXCEPT ![t] =
                          [op |-> "get_adapter", kind |-> "unknown_type",
                           name |-> n]]
                   /\ racePc' = [racePc EXCEPT ![t] = "idle"]
                   /\ UNCHANGED <<objs, raceObj>>
              ELSE \E outcome \in CtorOutcomes(cls) :
                   IF outcome = "raised"
                   THEN /\ raceRet' = [raceRet EXCEPT ![t] =
                               [op |-> "get_adapter", kind |-> "ctor_raised",
                                name |-> n]]
                        /\ racePc' = [racePc EXCEPT ![t] = "idle"]
                        /\ UNCHANGED <<objs, raceObj>>
                   ELSE /\ Len(objs) < MaxAdapters
                        /\ objs' = Append(objs, NewAdapter(cls, cfg, n))
                        /\ raceObj' = [raceObj EXCEPT ![t] = Len(objs) + 1]
                        /\ racePc' = [racePc EXCEPT ![t] = "store"]
                        /\ UNCHANGED raceRet
    /\ UNCHANGED <<adapters, order, closed, use_mock, closer, regRet, first,
                   cleared, raceArg>>

(* Lines 128-130: the adapter is cached and returned.                      *)
RaceStore(t) ==
    /\ UNCHANGED <<globalVars, mockVars, realVars, toolVars>>
    /\ racePc[t] = "store"
    /\ CachePut(raceArg[t], raceObj[t])
    /\ raceRet' = [raceRet EXCEPT ![t] =
           [op |-> "get_adapter", kind |-> "ok", name |-> raceArg[t],
            id |-> raceObj[t], late |-> raceRet[t].late]]
    /\ racePc' = [racePc EXCEPT ![t] = "idle"]
    /\ UNCHANGED <<configs, objs, closed, use_mock, closer, regRet, first,
                   cleared, raceArg, raceObj>>

RaceNext ==
    \/ \E t \in Threads, n \in QueryNames : RaceCall(t, n)
    \/ \E t \in Threads : RaceConstruct(t)
    \/ \E t \in Threads : RaceStore(t)

SpecRace == Init /\ [][RaceNext]_vars

(***************************************************************************)
(*                       PROPERTIES OF THE REGISTRY                        *)
(***************************************************************************)
GotAdapter == regRet.op = "get_adapter" /\ regRet.kind = "ok"

(* C1: as long as the cache has not been cleared, every get_adapter call   *)
(* that returns for a cluster name returns the adapter instance that the   *)
(* first call for that name constructed, whatever list_clusters and        *)
(* get_cluster_info calls come in between.                                 *)
C1_SameInstance ==
    GotAdapter =>
        /\ regRet.name \in DOMAIN first
        /\ regRet.id = first[regRet.name]

(* A second call for a name was answered from the cache.                   *)
C1_Witness == GotAdapter /\ ~regRet.built

(* C2 as claimed: get_adapter with a name absent from the configuration    *)
(* fails with the not-found error, and the message lists at least one      *)
(* configured cluster name.                                                *)
C2_ListsAtLeastOne ==
    (regRet.op = "get_adapter" /\ regRet.name \notin DOMAIN configs) =>
        /\ regRet.kind = "not_found"
        /\ regRet.available \cap DOMAIN configs # {}

(* C2 amended: get_adapter with a name absent from the configuration       *)
(* always fails with the not-found error, never returns an adapter, and    *)
(* the message lists every configured cluster name: at least one when the  *)
(* configuration is not empty, none when it is empty.                      *)
C2_ListsConfigured ==
    (regRet.op = "get_adapter" /\ regRet.name \notin DOMAIN configs) =>
        /\ regRet.kind = "not_found"
        /\ regRet.available = DOMAIN configs
        /\ (configs # EmptyMap => regRet.available # {})

(* An unknown name was asked for while clusters are configured.            *)
C2_Witness ==
    /\ regRet.op = "get_adapter"
    /\ regRet.kind = "not_found"
    /\ regRet.available # {}

(* C3: when close_all has finished, close() was invoked on every adapter   *)
(* that was cached when it was called and the cache is empty; an adapter   *)
(* that get_adapter returns afterwards is never one that was cleared.      *)
C3_CloseAllClears ==
    /\ (regRet.op = "close_all" /\ regRet.kind = "ok") =>
           /\ adapters = EmptyMap
           /\ order = <<>>
           /\ regRet.snap \subseteq closed
    /\ GotAdapter => regRet.id \notin cleared

(* After a close_all that cleared a cluster's adapter, get_adapter built a *)
(* new adapter for that cluster.                                           *)
C3_Witness ==
    /\ GotAdapter
    /\ regRet.built
    /\ \E c \in cleared : objs[c].name = regRet.name

(* C4: racing get_adapter calls may each construct an adapter, but the     *)
(* cache holds one adapter per name, an adapter that was constructed for   *)
(* that name, and every call that began after the racing calls for its     *)
(* name had returned got the instance that is cached.                      *)
C4_RaceSettles ==
    /\ \A n \in DOMAIN adapters :
           /\ adapters[n] \in DOMAIN objs
           /\ objs[adapters[n]].name = n
    /\ \A t \in Threads :
           (raceRet[t].op = "get_adapter" /\ raceRet[t].kind = "ok"
               /\ raceRet[t].late) =>
               /\ raceRet[t].name \in DOMAIN adapters
               /\ adapters[raceRet[t].name] = raceRet[t].id

(* Two racing calls constructed two adapters for one name, and a later     *)
(* call was answered.                                                      *)
C4_Witness ==
    /\ \E i, j \in DOMAIN objs : i # j /\ objs[i].name = objs[j].name
    /\ \E t \in Threads :
           /\ raceRet[t].op = "get_adapter"
           /\ raceRet[t].kind = "ok"
           /\ raceRet[t].late


(***************************************************************************)
(*                             MOCK ADAPTER                                *)
(*                                                                         *)
(* Strings that the code takes apart or compares (job ids, array specs)    *)
(* are sequences of one-character strings.                                 *)
(***************************************************************************)

(* The prefix of a Flux-style id, U+0192 (LATIN SMALL LETTER F WITH HOOK). *)
FluxGlyph == "f"

DigitChars == <<"0", "1", "2", "3", "4", "5", "6", "7", "8", "9">>

IsDigit(c) == \E d \in 1..10 : DigitChars[d] = c

DigitVal(c) == (CHOOSE d \in 1..10 : DigitChars[d] = c) - 1

(* str(n) for n >= 0 *)
RECURSIVE IntToStr(_)
IntToStr(n) ==
    IF n < 10 THEN <<DigitChars[n + 1]>>
    ELSE Append(IntToStr(n \div 10), DigitChars[(n % 10) + 1])

(* The value of a string of decimal digits. *)
RECURSIVE StrToInt(_)
StrToInt(str) ==
    IF Len(str) = 0 THEN 0
    ELSE 10 * StrToInt(SubSeq(str, 1, Len(str) - 1)) + DigitVal(str[Len(str)])

AllDigits(str) == Len(str) > 0 /\ \A i \in 1..Len(str) : IsDigit(str[i])

(* Code point order of the characters job ids are made of. *)
Ord(c) == IF IsDigit(c) THEN 48 + DigitVal(c) ELSE 402

(* Python's `a < b` on strings *)
RECURSIVE StrLess(_, _)
StrLess(a, b) ==
    IF Len(b) = 0 THEN FALSE
    ELSE IF Len(a) = 0 THEN TRUE
    ELSE IF Ord(a[1]) # Ord(b[1]) THEN Ord(a[1]) < Ord(b[1])
    ELSE StrLess(Tail(a), Tail(b))

(* Python truthiness of an optional name (None or a string) *)
Truthy(x) == x # None /\ x # ""

(* _generate_job_id: `self.job_counter += 1` *)
NextCounterStuck(c) == c

NextCounter(c) == c + 1

(* _generate_job_id: the id made from the counter value c *)
FormatJobId(c) ==
    IF mock_type = "flux" THEN <<FluxGlyph>> \o IntToStr(c) ELSE IntToStr(c)

(* `x or default` *)
OrElse(x, default) == IF Truthy(x) THEN x ELSE default

(* An optional integer: {} is None, {v} is the value v. *)
NoInt == {}

(* _create_mock_job, without the fields that no operation of the adapter   *)
(* reads back (timestamps, resources, paths).                              *)
CreateMockJob(job_id, job_name, state) ==
    [job_id |-> job_id,
     name |-> OrElse(job_name, "mock-job"),
     state |-> state,
     runtime |-> IF state \in {"RUNNING", "COMPLETED"}
                 THEN "00:15:23" ELSE "00:00:00",
     exit_code |-> IF state = "COMPLETED" THEN {0} ELSE NoInt,
     user |-> "mock-user"]

(* `self.jobs[job_id] = job` *)
PutJob(js, job_id, job) ==
    [x \in DOMAIN js \cup {job_id} |-> IF x = job_id THEN job ELSE js[x]]

JobNames == {None}

(* Job ids that callers pass to get_job and cancel_job: the first id a     *)
(* Slurm-style mock generates and the first id a Flux-style mock           *)
(* generates (each is an id the other style never generates).              *)
AskIds == {<<"1", "0", "0", "0">>, <<FluxGlyph, "1", "0", "0", "0">>}

(* Job ids that callers pass to cancel_job: those above and the second id  *)
(* a Slurm-style mock generates.                                           *)
CancelIds == AskIds \cup {<<"1", "0", "0", "1">>}

CounterCap == InitialJobCounter + MaxGen

(* MockAdapter.submit_job *)
SubmitJob(job_name) ==
    /\ job_counter < CounterCap
    /\ LET job_id == FormatJobId(job_counter)
       IN  /\ job_counter' = NextCounter(job_counter)
           /\ generated' = Append(generated, job_id)
           /\ jobs' = PutJob(jobs, job_id,
                             CreateMockJob(job_id, job_name, "PENDING"))
           /\ mockRet' = [op |-> "submit_job", success |-> TRUE,
                          job_id |-> job_id, state |-> "PENDING",
                          error |-> None]
           /\ live' = live \cup {job_id}
    /\ UNCHANGED <<mock_type, batchIn>>
    /\ UNCHANGED <<globalVars, regVars, realVars, toolVars>>

(* get_job: `if job_id not in self.jobs` *)
JobKnownNever(js, job_id) == FALSE

JobKnown(js, job_id) == job_id \in DOMAIN js

(* MockAdapter.get_job *)
GetJob(job_id) ==
    /\ jobs' = IF JobKnown(jobs, job_id) THEN jobs
               ELSE PutJob(jobs, job_id,
                           CreateMockJob(job_id, "mock-job", "RUNNING"))
    /\ mockRet' = [op |-> "get_job", arg |-> job_id, job |-> jobs'[job_id]]
    /\ UNCHANGED <<mock_type, job_counter, generated, batchIn, live>>
    /\ UNCHANGED <<globalVars, regVars, realVars, toolVars>>

(* list_jobs seeding: `states[i % len(states)]` and f"mock-job-{i}" *)
SeedStates == <<"PENDING", "RUNNING", "COMPLETED", "FAILED">>

SeedNames == <<"mock-job-0", "mock-job-1", "mock-job-2", "mock-job-3",
               "mock-job-4">>

SeedCount == 5

(* The loop `for i in range(5)` of list_jobs from iteration i on; st is    *)
(* the store, the counter and the ids generated so far.                    *)
RECURSIVE SeedLoop(_, _)
SeedLoop(i, st) ==
    IF i >= SeedCount THEN st
    ELSE LET job_id == FormatJobId(st.counter)
         IN  SeedLoop(i + 1,
                 [jobs |-> PutJob(st.jobs, job_id,
                               CreateMockJob(job_id, SeedNames[i + 1],
                                   SeedStates[(i % Len(SeedStates)) + 1])),
                  counter |-> NextCounter(st.counter),
                  gen |-> Append(st.gen, job_id)])

(* `if not self.jobs:` followed by the seeding loop *)
Seeded ==
    LET st == [jobs |-> jobs, counter |-> job_counter, gen |-> generated]
    IN  IF jobs = EmptyMap THEN SeedLoop(0, st) ELSE st

(* list_jobs: the two `continue` tests of the filter loop *)
KeptAlways(job, user, state) == TRUE

Kept(job, user, state) ==
    /\ ~(Truthy(user) /\ job.user # user)
    /\ ~(Truthy(state) /\ job.state # state)

(* `result.sort(key=lambda j: j.job_id, reverse=True)` on a set of jobs    *)
(* with distinct ids                                                       *)
RECURSIVE SortDesc(_)
SortDesc(S) ==
    IF S = {} THEN <<>>
    ELSE LET top == CHOOSE j \in S :
                        \A k \in S \ {j} : StrLess(k.job_id, j.job_id)
         IN  <<top>> \o SortDesc(S \ {top})

(* Python's seq[:limit] *)
Slice(seq, limit) ==
    IF limit >= 0
    THEN SubSeq(seq, 1, IF limit < Len(seq) THEN limit ELSE Len(seq))
    ELSE SubSeq(seq, 1, IF Len(seq) + limit > 0 THEN Len(seq) + limit ELSE 0)

StateFilters == {None, "PENDING", "RUNNING", "COMPLETED", "CANCELLED"}
Limits == {1, 100}

(* Arguments of list_jobs: every state filter and limit without a user     *)
(* filter, and a user filter that matches no job of the mock.              *)
ListInputs ==
    [user : {None}, state : StateFilters, limit : Limits]
    \cup [user : {"alice"}, state : {None}, limit : {100}]

(* MockAdapter.list_jobs *)
ListJobs(user, state, limit) ==
    /\ jobs = EmptyMap => job_counter + SeedCount <= CounterCap
    /\ LET st == Seeded
           kept == {job \in Range(st.jobs) : Kept(job, user, state)}
       IN  /\ jobs' = st.jobs
           /\ job_counter' = st.counter
           /\ generated' = st.gen
           /\ mockRet' = [op |-> "list_jobs", user |-> user, state |-> state,
                          limit |-> limit,
                          result |-> Slice(SortDesc(kept), limit)]
    /\ UNCHANGED <<mock_type, batchIn, live>>
    /\ UNCHANGED <<globalVars, regVars, realVars, toolVars>>

(* `if not self.jobs: await self.list_jobs()` of the three query            *)
(* operations: the store, the counter and the ids after it.                *)
EnsureJobs ==
    /\ jobs = EmptyMap => job_counter + SeedCount <= CounterCap
    /\ LET st == Seeded
       IN  /\ jobs' = st.jobs
           /\ job_counter' = st.counter
           /\ generated' = st.gen

(* `state_counts[state]`, `sum(1 for job in ... if job.state == state)` *)
CountState(js, state) ==
    Cardinality({job_id \in DOMAIN js : js[job_id].state = state})

Min(a, b) == IF a < b THEN a ELSE b

(* MockAdapter.get_queue_status, concise response *)
GetQueueStatus ==
    /\ EnsureJobs
    /\ mockRet' = [op |-> "get_queue_status", success |-> TRUE,
                   total_jobs |-> Cardinality(DOMAIN jobs'),
                   running |-> CountState(jobs', "RUNNING"),
                   pending |-> CountState(jobs', "PENDING"),
                   completed |-> CountState(jobs', "COMPLETED")]
    /\ UNCHANGED <<mock_type, batchIn, live>>
    /\ UNCHANGED <<globalVars, regVars, realVars, toolVars>>

(* MockAdapter.get_accounting without filters: every job matches, and      *)
(* `total` is taken before the limit.                                      *)
GetAccounting(limit) ==
    /\ EnsureJobs
    /\ \E matching_jobs \in {SortDesc(Range(jobs'))} :
       \E page \in {Slice(matching_jobs, limit)} :
           mockRet' = [op |-> "get_accounting", success |-> TRUE,
                       jobs |-> [i \in 1..Len(page) |-> page[i].job_id],
                       total |-> Len(matching_jobs)]
    /\ UNCHANGED <<mock_type, batchIn, live>>
    /\ UNCHANGED <<globalVars, regVars, realVars, toolVars>>

(* MockAdapter.get_resources, concise response: 32 nodes, 2 of them down *)
GetResources ==
    /\ EnsureJobs
    /\ LET nodes_allocated == Min(CountState(jobs', "RUNNING") * 2, 32 - 4)
       IN  mockRet' = [op |-> "get_resources", success |-> TRUE,
                       allocated |-> nodes_allocated,
                       idle |-> 32 - nodes_allocated - 2]
    /\ UNCHANGED <<mock_type, batchIn, live>>
    /\ UNCHANGED <<globalVars, regVars, realVars, toolVars>>

Signals == {"TERM"}

(* cancel_job: `"success": True` in the dict returned *)
CancelSuccessIfKnown(js, job_id) == job_id \in DOMAIN js

CancelSuccess(js, job_id) == TRUE

(* cancel_job: `if job_id in self.jobs: self.jobs[job_id].state = ...` *)
MarkCancelled(js, job_id) ==
    IF job_id \in DOMAIN js
    THEN [js EXCEPT ![job_id].state = "CANCELLED"]
    ELSE js

(* MockAdapter.cancel_job; `again` is history: the call that completed     *)
(* just before this one was cancel_job for the same id.                    *)
CancelJob(job_id, signal) ==
    /\ jobs' = MarkCancelled(jobs, job_id)
    /\ mockRet' = [op |-> "cancel_job", signal |-> signal,
                   again |-> (mockRet.op = "cancel_job"
                                 /\ mockRet.result.job_id = job_id),
                   result |-> [success |-> CancelSuccess(jobs, job_id),
                               job_id |-> job_id,
                               state |-> "CANCELLED",
                               message |-> <<"Mock job", job_id,
                                             "cancelled">>]]
    /\ live' = live \ {job_id}
    /\ UNCHANGED <<mock_type, job_counter, generated, batchIn>>
    /\ UNCHANGED <<globalVars, regVars, realVars, toolVars>>


(***************************************************************************)
(* submit_batch.  An optional argument is a set: {} is None, {v} is v.     *)
(***************************************************************************)
Contains(str, ch) == \E i \in 1..Len(str) : str[i] = ch

(* str.split(sep) for a one-character separator *)
RECURSIVE Split(_, _)
Split(str, sep) ==
    IF ~Contains(str, sep) THEN <<str>>
    ELSE LET i == CHOOSE k \in 1..Len(str) :
                      str[k] = sep /\ \A m \in 1..(k - 1) : str[m] # sep
         IN  <<SubSeq(str, 1, i - 1)>>
                 \o Split(SubSeq(str, i + 1, Len(str)), sep)

(* int(text) raises ValueError unless text is a decimal numeral.  (The     *)
(* signs, blanks and underscores int() also accepts are not characters of  *)
(* the array specs considered here.)                                       *)
IntOk(text) == AllDigits(text)

(* `range(start, end + 1, step)`: the exclusive stop value *)
RangeStop(end) == end + 1

(* Parsing of array_spec, lines 374-384, and the creation of the range on  *)
(* line 387: the exception raised, or the range.                           *)
ParseArraySpec(spec) ==
    LET parts == Split(spec, "-")
        end_step == parts[2]
        pair == Split(end_step, ":")
    IN  IF ~IntOk(parts[1])
        THEN [raised |-> "invalid literal for int()"]
        ELSE IF Contains(end_step, ":")
        THEN IF Len(pair) # 2
             THEN [raised |-> "too many values to unpack"]
             ELSE IF ~IntOk(pair[1]) \/ ~IntOk(pair[2])
             THEN [raised |-> "invalid literal for int()"]
             ELSE IF StrToInt(pair[2]) = 0
             THEN [raised |-> "range() arg 3 must not be zero"]
             ELSE [raised |-> "no", start |-> StrToInt(parts[1]),
                   stop |-> RangeStop(StrToInt(pair[1])),
                   step |-> StrToInt(pair[2])]
        ELSE IF ~IntOk(end_step)
        THEN [raised |-> "invalid literal for int()"]
        ELSE [raised |-> "no", start |-> StrToInt(parts[1]),
              stop |-> RangeStop(StrToInt(end_step)), step |-> 1]

(* `if max_concurrent and count >= max_concurrent: break` *)
BreaksAt(max_concurrent, count) ==
    \E m \in max_concurrent : m # 0 /\ count >= m

(* `submitted += 1` *)
CountSubmittedNot(n) == n

CountSubmitted(n) == n + 1

(* The loop `for i in range(start, end + 1, step)` from index i on; acc    *)
(* holds job_ids, submitted and the counter.                               *)
RECURSIVE ArrayLoop(_, _, _, _, _, _)
ArrayLoop(i, stop, step, max_concurrent, count, acc) ==
    IF i >= stop \/ BreaksAt(max_concurrent, count) THEN acc
    ELSE ArrayLoop(i + step, stop, step, max_concurrent, count + 1,
             [job_ids |-> Append(acc.job_ids, FormatJobId(acc.counter)),
              submitted |-> CountSubmitted(acc.submitted),
              counter |-> NextCounter(acc.counter)])

(* The loop `for idx, cmd in enumerate(commands)`; its except clause is    *)
(* never entered, since _generate_job_id does not raise.                   *)
RECURSIVE BulkLoop(_, _, _)
BulkLoop(idx, commands, acc) ==
    IF idx > Len(commands) THEN acc
    ELSE BulkLoop(idx + 1, commands,
             [job_ids |-> Append(acc.job_ids, FormatJobId(acc.counter)),
              submitted |-> CountSubmitted(acc.submitted),
              counter |-> NextCounter(acc.counter)])

BatchReply(batch_type, acc, failed, errors) ==
    [success |-> acc.submitted > 0, job_ids |-> acc.job_ids,
     batch_type |-> batch_type, submitted |-> acc.submitted,
     failed |-> failed, errors |-> errors]

(* `if array_spec:` / `elif commands:` *)
GivenSpec(in) == \E sp \in in.array_spec : Len(sp) > 0

GivenCommands(in) == \E cs \in in.commands : Len(cs) > 0

(* MockAdapter.submit_batch called with arguments `in` when the counter is *)
(* c: the dict returned and the counter afterwards.                        *)
BatchOutcome(in, c) ==
    LET acc0 == [job_ids |-> <<>>, submitted |-> 0, counter |-> c]
    IN  IF GivenSpec(in)
        THEN LET spec == CHOOSE sp \in in.array_spec : TRUE
                 p == ParseArraySpec(spec)
             IN  IF ~Contains(spec, "-")
                 THEN [reply |-> BatchReply("array", acc0, 0, <<>>),
                       counter |-> c]
                 ELSE IF p.raised # "no"
                 THEN [reply |-> BatchReply("array", acc0, 1,
                                     <<[index |-> 0, command |-> spec,
                                        error |-> p.raised]>>),
                       counter |-> c]
                 ELSE LET acc == ArrayLoop(p.start, p.stop, p.step,
                                           in.max_concurrent, 0, acc0)
                      IN  [reply |-> BatchReply("array", acc, 0, <<>>),
                           counter |-> acc.counter]
        ELSE IF GivenCommands(in)
        THEN LET acc == BulkLoop(1, CHOOSE cs \in in.commands : TRUE, acc0)
             IN  [reply |-> BatchReply("bulk", acc, 0, <<>>),
                  counter |-> acc.counter]
        ELSE [reply |-> [success |-> FALSE,
                         error |-> "Either array_spec or commands must be provided"],
              counter |-> c]

(* Number of values of range(start, stop, step), step > 0 *)
RangeLen(start, stop, step) ==
    IF stop <= start THEN 0 ELSE ((stop - start - 1) \div step) + 1

(* An upper bound on the ids the call generates, used to keep the counter  *)
(* within the bound of the model.                                          *)
BatchDemand(in) ==
    IF GivenSpec(in)
    THEN LET spec == CHOOSE sp \in in.array_spec : TRUE
             p == ParseArraySpec(spec)
         IN  IF ~Contains(spec, "-") \/ p.raised # "no" THEN 0
             ELSE IF \E m \in in.max_concurrent : m > 0
             THEN CHOOSE m \in in.max_concurrent : TRUE
             ELSE RangeLen(p.start, p.stop, p.step)
    ELSE IF GivenCommands(in)
    THEN Len(CHOOSE cs \in in.commands : TRUE)
    ELSE 0

(* MockAdapter.submit_batch; the ids it generates are not stored in jobs.  *)
SubmitBatch(in, cap) ==
    /\ job_counter + BatchDemand(in) <= InitialJobCounter + cap
    /\ LET out == BatchOutcome(in, job_counter)
       IN  /\ job_counter' = out.counter
           /\ generated' = IF "job_ids" \in DOMAIN out.reply
                           THEN generated \o out.reply.job_ids
                           ELSE generated
           /\ mockRet' = [op |-> "submit_batch", args |-> in,
                          counter0 |-> job_counter, reply |-> out.reply]
    /\ UNCHANGED <<mock_type, jobs, batchIn, live>>
    /\ UNCHANGED <<globalVars, regVars, realVars, toolVars>>

(* Characters of the array specs considered. *)
SpecChars == {"0", "1", "3", "-", ":", "x"}

SpecStrings == UNION {[1..n -> SpecChars] : n \in 0..MaxSpecLen}

CommandLists == UNION {[1..n -> {"echo 1", ""}] : n \in 0..MaxCommands}

MaxConcurrents == {{}, {0}, {2}}

(* Arguments of submit_batch: an array spec (alone or with a command list  *)
(* that is then ignored), or no array spec and any command list or none.   *)
BatchInputs ==
    [array_spec : {{sp} : sp \in SpecStrings \ {<<>>}},
     commands : {{}, {<<"echo 1">>}},
     max_concurrent : MaxConcurrents]
    \cup
    [array_spec : {{}, {<<>>}},
     commands : {{}} \cup {{cs} : cs \in CommandLists},
     max_concurrent : MaxConcurrents]

(* The submit_batch calls mixed with the other operations of the mock. *)
MixedBatchInputs ==
    {[array_spec |-> {<<"1", "-", "3">>}, commands |-> {},
      max_concurrent |-> {2}],
     [array_spec |-> {}, commands |-> {<<"echo 1">>},
      max_concurrent |-> {}]}

MockTypes == {"slurm", "flux"}

MockInit ==
    /\ mock_type \in MockTypes
    /\ jobs = EmptyMap
    /\ job_counter = InitialJobCounter
    /\ mockRet = NoRet
    /\ generated = <<>>
    /\ batchIn = NoRet
    /\ live = {}

MockNext ==
    \/ \E job_name \in JobNames : SubmitJob(job_name)
    \/ \E job_id \in AskIds : GetJob(job_id)
    \/ \E in \in ListInputs : ListJobs(in.user, in.state, in.limit)
    \/ \E job_id \in CancelIds, signal \in Signals :
           CancelJob(job_id, signal)
    \/ \E in \in MixedBatchInputs : SubmitBatch(in, MaxGen)

InitMock ==
    /\ RegIdle
    /\ MockInit
    /\ RealIdle
    /\ ToolIdle

SpecMock == InitMock /\ [][MockNext]_vars

BatchInit ==
    /\ mock_type \in MockTypes
    /\ jobs = EmptyMap
    /\ job_counter = InitialJobCounter
    /\ mockRet = NoRet
    /\ generated = <<>>
    /\ batchIn \in BatchInputs
    /\ live = {}

BatchNext == SubmitBatch(batchIn, MaxBatchGen)

InitBatch ==
    /\ RegIdle
    /\ BatchInit
    /\ RealIdle
    /\ ToolIdle

SpecBatch == InitBatch /\ [][BatchNext]_vars


(***************************************************************************)
(*                      PROPERTIES OF THE MOCK ADAPTER                     *)
(***************************************************************************)

(* C5: a job id that submit_job returned, and that no cancel_job call has  *)
(* named since, is stored under that id in state PENDING, and get_job for  *)
(* it returns that job, whatever submit_job, list_jobs, get_job and        *)
(* cancel_job calls were made in between.                                  *)
C5_SubmittedStaysPending ==
    /\ \A j \in live :
           /\ j \in DOMAIN jobs
           /\ jobs[j].job_id = j
           /\ jobs[j].state = "PENDING"
    /\ (mockRet.op = "get_job" /\ mockRet.arg \in live) =>
           /\ mockRet.job.job_id = mockRet.arg
           /\ mockRet.job.state = "PENDING"

(* get_job was called for a submitted job while other jobs are stored.     *)
C5_Witness ==
    /\ mockRet.op = "get_job"
    /\ mockRet.arg \in live
    /\ Cardinality(DOMAIN jobs) > 1

StoredInState(s) == {job \in Range(jobs) : job.state = s}

InResult(job) == \E i \in 1..Len(mockRet.result) : mockRet.result[i] = job

(* C6: list_jobs(state=s) returns stored jobs, every one of them in state  *)
(* s, and when no more than limit stored jobs are in state s it returns    *)
(* all of them.                                                            *)
C6_StateFilterExact ==
    (mockRet.op = "list_jobs" /\ mockRet.user = None
        /\ mockRet.state # None) =>
        /\ \A i \in 1..Len(mockRet.result) :
               /\ mockRet.result[i].state = mockRet.state
               /\ mockRet.result[i] \in Range(jobs)
        /\ Cardinality(StoredInState(mockRet.state)) <= mockRet.limit =>
               \A job \in StoredInState(mockRet.state) : InResult(job)

(* After a cancellation, the CANCELLED filter returned a job while jobs in *)
(* other states are stored.                                                *)
C6_Witness ==
    /\ mockRet.op = "list_jobs"
    /\ mockRet.user = None
    /\ mockRet.state = "CANCELLED"
    /\ Len(mockRet.result) > 0
    /\ \E job \in Range(jobs) : job.state # "CANCELLED"

(* The counter value embedded in a generated id. *)
IdNumber(job_id) ==
    StrToInt(IF job_id[1] = FluxGlyph THEN Tail(job_id) ELSE job_id)

(* C7: the ids a "flux" mock generates are the glyph followed by digits,   *)
(* the ids a "slurm" mock generates are digits only, and the numbers in    *)
(* the ids one adapter generates (through submit_job, submit_batch and the *)
(* seeding of list_jobs) are strictly increasing, so no id comes twice.    *)
C7_GeneratedIds ==
    /\ \A i \in 1..Len(generated) :
           /\ mock_type = "flux" =>
                  /\ generated[i][1] = FluxGlyph
                  /\ AllDigits(Tail(generated[i]))
           /\ mock_type = "slurm" => AllDigits(generated[i])
    /\ \A i, j \in 1..Len(generated) :
           i < j => /\ IdNumber(generated[i]) < IdNumber(generated[j])
                    /\ generated[i] # generated[j]

(* Ids were generated by the seeding of list_jobs and by another call.     *)
C7_Witness ==
    /\ Len(generated) > SeedCount
    /\ mock_type = "flux"

(* C8: cancel_job returns success with state CANCELLED for every job id,   *)
(* and a second call for the same id returns the same result and leaves    *)
(* the job store as the first call left it.                                *)
C8_CancelIdempotent ==
    /\ [](mockRet.op = "cancel_job" =>
             /\ mockRet.result.success
             /\ mockRet.result.state = "CANCELLED")
    /\ [][(/\ mockRet.op = "cancel_job"
           /\ mockRet'.op = "cancel_job"
           /\ mockRet'.result.job_id = mockRet.result.job_id) =>
              /\ jobs' = jobs
              /\ mockRet'.result = mockRet.result]_vars

(* cancel_job was called twice in a row for an id that was never stored.   *)
C8_Witness ==
    /\ mockRet.op = "cancel_job"
    /\ mockRet.again
    /\ mockRet.result.job_id \notin DOMAIN jobs

(* The items a submit_batch call attempts: every command of a command      *)
(* list; for an array spec "a-b" or "a-b:s" the indices a, a+s, ... up to  *)
(* b, at most max_concurrent of them when that is set; a spec with a "-"   *)
(* that does not parse is one item; a spec without "-" has none.           *)
Attempted(in) ==
    IF GivenSpec(in)
    THEN LET spec == CHOOSE sp \in in.array_spec : TRUE
             p == ParseArraySpec(spec)
             last == StrToInt(Split(Split(spec, "-")[2], ":")[1])
             indices == IF last < p.start THEN 0
                        ELSE ((last - p.start) \div p.step) + 1
         IN  IF ~Contains(spec, "-") THEN 0
             ELSE IF p.raised # "no" THEN 1
             ELSE IF \E m \in in.max_concurrent : m # 0 /\ m < indices
             THEN CHOOSE m \in in.max_concurrent : TRUE
             ELSE indices
    ELSE Len(CHOOSE cs \in in.commands : TRUE)

RealJobIds == {"101", "102", "103"}

CancelSignals == {"TERM", "KILL", "INT", "HUP"}

(* SlurmAdapter._get_jwt_token: the stored token, or a freshly encoded one *)
(* that is stored.                                                         *)
TokenAfterRequest(token) == IF token # None THEN token ELSE "minted"

(* What the HTTP exchange of _make_request can come to for                 *)
(* DELETE /slurm/v0.0.40/job/{id}.  A job the scheduler does not know is   *)
(* reported with an error status or with a 200 body whose `errors` list is *)
(* not empty; the request can also fail in transport or carry a body that  *)
(* is not JSON.                                                            *)
SlurmResponses(found) ==
    {[kind |-> "transport_error", status |-> 0, errors |-> <<>>,
      not_found |-> ~found],
     [kind |-> "body_not_json", status |-> 200, errors |-> <<>>,
      not_found |-> ~found]}
    \cup
    IF found
    THEN {[kind |-> "json", status |-> 200, errors |-> <<>>,
           not_found |-> FALSE]}
    ELSE {[kind |-> "json", status |-> 404, errors |-> <<>>,
           not_found |-> TRUE],
          [kind |-> "json", status |-> 200,
           errors |-> <<[error |-> "Invalid job id specified"]>>,
           not_found |-> TRUE],
          [kind |-> "json", status |-> 200,
           errors |-> <<[description |-> "job not found"]>>,
           not_found |-> TRUE]}

(* SlurmAdapter._make_request: client.request, raise_for_status, json().   *)
(* The response JSON, or the exception raised.                             *)
MakeRequest(resp) ==
    IF resp.kind = "transport_error"
    THEN [raised |-> "ConnectError"]
    ELSE IF resp.kind = "timeout"
    THEN [raised |-> "ReadTimeout"]
    ELSE IF resp.status >= 400
    THEN [raised |-> "HTTPStatusError"]
    ELSE IF resp.kind = "body_not_json"
    THEN [raised |-> "JSONDecodeError"]
    ELSE [raised |-> "no", errors |-> resp.errors, json |-> resp]

(* `"; ".join(e.get("error", str(e)) for e in errors)` *)
JoinErrors(errors) ==
    [i \in 1..Len(errors) |->
        IF "error" \in DOMAIN errors[i] THEN errors[i].error
        ELSE "str(e)"]

(* SlurmAdapter.cancel_job: the dict returned for a response *)
SlurmCancelReply(job_id, resp) ==
    LET r == MakeRequest(resp)
    IN  IF r.raised # "no"
        THEN [success |-> FALSE, job_id |-> job_id, error |-> <<r.raised>>]
        ELSE IF r.errors # <<>>
        THEN [success |-> FALSE, job_id |-> job_id,
              error |-> JoinErrors(r.errors)]
        ELSE [success |-> TRUE, job_id |-> job_id, state |-> "CANCELLED",
              error |-> <<>>]

(* The scheduler forgets a job whose cancellation it accepted. *)
BackendAfterCancel(job_id, accepted) ==
    IF accepted THEN backendJobs \ {job_id} ELSE backendJobs

SlurmCancelJob(job_id, signal) ==
    /\ \E resp \in SlurmResponses(job_id \in backendJobs) :
           /\ realRet' = [op |-> "cancel_job", adapter |-> "slurm",
                          signal |-> signal, backend |-> resp,
                          not_found |-> resp.not_found,
                          reply |-> SlurmCancelReply(job_id, resp)]
           /\ backendJobs' = BackendAfterCancel(job_id,
                                 resp.kind = "json" /\ resp.status = 200
                                     /\ resp.errors = <<>>)
    /\ jwt_token' = TokenAfterRequest(jwt_token)
    /\ UNCHANGED <<globalVars, regVars, mockVars, toolVars, frame, execLog, reader>>

(* FluxAdapter._get_flux_pod: a pod name, or an exception (no pod with the *)
(* label, or the Kubernetes API call failed).                              *)
PodLookups == {"pod", "no_pods", "api_exception"}

(* What the exec of `flux cancel --signal S id` in the pod comes to: the   *)
(* exec call fails (ApiException), or the command runs and leaves its      *)
(* stdout, its stderr and its exit status.  flux cancel of an unknown job  *)
(* prints an error on stderr and exits with status 1.                      *)
FluxCancelExecs(found) ==
    {[kind |-> "api_exception", stdout |-> "", stderr |-> "", status |-> 0,
      not_found |-> ~found]}
    \cup
    IF found
    THEN {[kind |-> "ran", stdout |-> "", stderr |-> "", status |-> 0,
           not_found |-> FALSE]}
    ELSE {[kind |-> "ran", stdout |-> "",
           stderr |-> "flux-cancel: ERROR: unknown job id", status |-> 1,
           not_found |-> TRUE]}

(* FluxAdapter._exec_flux_command without stdin_data (lines 95-114 and     *)
(* 164-169): with preloaded content the stream call returns the command's  *)
(* stdout and stderr as one string; the exit status is not looked at.      *)
ExecFluxCommand(pod, exec) ==
    IF pod # "pod" THEN [raised |-> pod, text |-> <<>>]
    ELSE IF exec.kind = "api_exception"
    THEN [raised |-> "Failed to exec command in pod", text |-> <<>>]
    ELSE [raised |-> "no", text |-> <<exec.stdout, exec.stderr>>]

(* `signal_map.get(signal, "SIGTERM")` *)
FluxSignal(signal) ==
    IF signal = "TERM" THEN "SIGTERM"
    ELSE IF signal = "KILL" THEN "SIGKILL"
    ELSE IF signal = "INT" THEN "SIGINT"
    ELSE "SIGTERM"

(* FluxAdapter.cancel_job: the dict returned *)
FluxCancelReply(job_id, signal, pod, exec) ==
    LET r == ExecFluxCommand(pod, exec)
    IN  IF r.raised # "no"
        THEN [success |-> FALSE, job_id |-> job_id, error |-> <<r.raised>>]
        ELSE [success |-> TRUE, job_id |-> job_id, state |-> "CANCELLED",
              message |-> FluxSignal(signal), error |-> <<>>]

FluxCancelJob(job_id, signal) ==
    /\ \E pod \in PodLookups, exec \in FluxCancelExecs(job_id \in backendJobs) :
           /\ realRet' = [op |-> "cancel_job", adapter |-> "flux",
                          signal |-> signal, backend |-> exec,
                          not_found |-> (pod = "pod" /\ exec.not_found
                                            /\ exec.kind = "ran"),
                          reply |-> FluxCancelReply(job_id, signal, pod, exec)]
           /\ backendJobs' = BackendAfterCancel(job_id,
                                 pod = "pod" /\ exec.kind = "ran"
                                     /\ exec.status = 0)
    /\ UNCHANGED <<globalVars, regVars, mockVars, toolVars, jwt_token, frame, execLog,
                   reader>>

RealInit ==
    /\ backendJobs \in SUBSET RealJobIds
    /\ jwt_token \in {None, "configured"}
    /\ realRet = NoRet
    /\ frame = IdleFrame
    /\ execLog = <<>>
    /\ reader = IdleReader

CancelNext ==
    \/ \E job_id \in RealJobIds, signal \in CancelSignals :
           SlurmCancelJob(job_id, signal)
    \/ \E job_id \in RealJobIds, signal \in CancelSignals :
           FluxCancelJob(job_id, signal)

InitCancel ==
    /\ RegIdle
    /\ MockIdle
    /\ RealInit
    /\ ToolIdle

SpecCancel == InitCancel /\ [][CancelNext]_vars

(* C9: cancel_job of the REST and of the exec adapter, for a job the       *)
(* backend reports as not found, returns success=false with an error text  *)
(* and never success=true.                                                 *)
C9_NotFoundIsFailure ==
    (realRet.op = "cancel_job" /\ realRet.not_found) =>
        /\ ~realRet.reply.success
        /\ realRet.reply.error # <<>>


(***************************************************************************)
(*             submit_job OF THE REST AND THE EXEC ADAPTER                 *)
(***************************************************************************)

(* The optional fields of JobSubmitParams.  A string field is None or a    *)
(* string; an integer field is an optional integer.                        *)
OptionalStrFields == {"job_name", "memory", "time_limit", "partition",
                      "output_path", "error_path", "working_dir"}

OptionalIntFields == {"nodes", "tasks_per_node", "cpus_per_task"}

OptionalFields == OptionalStrFields \cup OptionalIntFields

(* JobSubmitParams with no optional field supplied, and with all of them. *)
BareParams ==
    [script |-> "#!/bin/bash", job_name |-> None, nodes |-> NoInt,
     tasks_per_node |-> NoInt, cpus_per_task |-> NoInt, memory |-> None,
     time_limit |-> None, partition |-> None, output_path |-> None,
     error_path |-> None, working_dir |-> None]

FullParams ==
    [script |-> "#!/bin/bash", job_name |-> "job", nodes |-> {2},
     tasks_per_node |-> {4}, cpus_per_task |-> {1}, memory |-> "4G",
     time_limit |-> "10m", partition |-> "debug", output_path |-> "/out",
     error_path |-> "/err", working_dir |-> "/work"]

(* The parameter records submit_job is called with: nothing optional,      *)
(* everything, one field alone, everything but one field, and a node count *)
(* of zero.                                                                *)
SubmitParamSets ==
    {BareParams, FullParams, [FullParams EXCEPT !.nodes = {0}]}
    \cup {[BareParams EXCEPT ![f] = FullParams[f]] : f \in OptionalFields}
    \cup {[FullParams EXCEPT ![f] = BareParams[f]] : f \in OptionalFields}

(* `if params.<field>:` on an optional integer *)
TruthyInt(x) == x # NoInt /\ x # {0}

(* `if params.<field>:` *)
SuppliedAlways(params, f) == TRUE

Supplied(params, f) ==
    IF f \in OptionalIntFields THEN TruthyInt(params[f])
    ELSE Truthy(params[f])

(* The characters of a string joined back into the string. *)
RECURSIVE Concat(_)
Concat(chars) ==
    IF chars = <<>> THEN "" ELSE chars[1] \o Concat(Tail(chars))

(* str(n) as one string *)
Str(n) == Concat(IntToStr(n))

IsSpace(c) == c \in {" ", "\n", "\t"}

(* str.strip() on a sequence of characters *)
RECURSIVE Strip(_)
Strip(chars) ==
    IF chars = <<>> THEN <<>>
    ELSE IF IsSpace(chars[1]) THEN Strip(Tail(chars))
    ELSE IF IsSpace(chars[Len(chars)])
    THEN Strip(SubSeq(chars, 1, Len(chars) - 1))
    ELSE chars

(* str(e) of the exception a backend call raised.  A timed-out HTTP        *)
(* request raises an exception that carries no text.                      *)
ExceptionText(raised) ==
    IF raised = "ReadTimeout" THEN ""
    ELSE IF raised = "ConnectError" THEN "All connection attempts failed"
    ELSE IF raised = "HTTPStatusError" THEN "Server error '500'"
    ELSE IF raised = "JSONDecodeError" THEN "Expecting value"
    ELSE IF raised = "no_pods" THEN "No Flux pods found with label"
    ELSE IF raised = "api_exception" THEN "Failed to get Flux pods"
    ELSE raised

(* JobSubmitResult(...) *)
JobSubmitResult(success, job_id, state, error) ==
    [success |-> success, job_id |-> job_id, state |-> state,
     error |-> error]

(* `"; ".join(parts)` *)
RECURSIVE Join(_)
Join(parts) ==
    IF parts = <<>> THEN ""
    ELSE IF Len(parts) = 1 THEN parts[1]
    ELSE parts[1] \o "; " \o Join(Tail(parts))

(* SlurmAdapter.submit_job: the key of the job payload a field is sent as *)
SlurmKey(f) ==
    IF f = "job_name" THEN "name"
    ELSE IF f = "memory" THEN "memory_per_node"
    ELSE IF f = "output_path" THEN "standard_output"
    ELSE IF f = "error_path" THEN "standard_error"
    ELSE IF f = "working_dir" THEN "current_working_directory"
    ELSE f

(* SlurmAdapter.submit_job: the `job_spec` dict built from the parameters *)
SlurmJobSpec(params) ==
    LET conditional == {f \in OptionalFields \ {"working_dir"} :
                            Supplied(params, f)}
        keys == {"script", "current_working_directory"}
                    \cup {SlurmKey(f) : f \in conditional}
    IN  [k \in keys |->
            IF k = "script" THEN params.script
            ELSE IF k = "current_working_directory"
            THEN OrElse(params.working_dir, "/tmp")
            ELSE params[CHOOSE f \in conditional : SlurmKey(f) = k]]

(* What the HTTP exchange of POST /slurm/v0.0.40/job/submit can come to:   *)
(* no connection, no answer within the client's timeout, an error status,  *)
(* a body that is not JSON, or a JSON body that lists errors, names the    *)
(* new job, or does neither.                                               *)
SubmitResponses ==
    {[kind |-> "transport_error", status |-> 0, errors |-> <<>>,
      job_id |-> NoInt],
     [kind |-> "timeout", status |-> 0, errors |-> <<>>, job_id |-> NoInt],
     [kind |-> "body_not_json", status |-> 200, errors |-> <<>>,
      job_id |-> NoInt],
     [kind |-> "json", status |-> 500, errors |-> <<>>, job_id |-> NoInt],
     [kind |-> "json", status |-> 200,
      errors |-> <<[error |-> "Invalid partition specified"],
                   [description |-> "rejected"]>>,
      job_id |-> {0}],
     [kind |-> "json", status |-> 200, errors |-> <<>>, job_id |-> {42}],
     [kind |-> "json", status |-> 200, errors |-> <<>>, job_id |-> NoInt]}

(* The REST request did not succeed. *)
RestFailed(resp) ==
    resp.kind # "json" \/ resp.status >= 400 \/ resp.errors # <<>>

(* `str(response.get("job_id", ""))` *)
ResponseJobId(json) ==
    IF json.job_id = NoInt THEN ""
    ELSE Str(CHOOSE n \in json.job_id : TRUE)

(* SlurmAdapter.submit_job: the JobSubmitResult returned for a response *)
SlurmSubmitReply(resp) ==
    LET r == MakeRequest(resp)
    IN  IF r.raised # "no"
        THEN JobSubmitResult(FALSE, None, None, ExceptionText(r.raised))
        ELSE IF r.errors # <<>>
        THEN JobSubmitResult(FALSE, None, None, Join(JoinErrors(r.errors)))
        ELSE IF ResponseJobId(r.json) = ""
        THEN JobSubmitResult(FALSE, None, None, "No job_id in response")
        ELSE JobSubmitResult(TRUE, ResponseJobId(r.json), "PENDING", None)

SlurmSubmitJob(params) ==
    /\ frame.pc = "idle"
    /\ \E resp \in SubmitResponses :
           realRet' = [op |-> "submit_job", adapter |-> "slurm",
                       params |-> params,
                       request |-> SlurmJobSpec(params),
                       failed |-> RestFailed(resp),
                       reply |-> SlurmSubmitReply(resp)]
    /\ jwt_token' = TokenAfterRequest(jwt_token)
    /\ UNCHANGED <<globalVars, regVars, mockVars, toolVars, backendJobs, frame, execLog,
                   reader>>

(* `str(uuid.uuid4())[:8]` *)
ScriptIds == {"1a2b3c4d", "9f8e7d6c"}

(* `temp_script = f"/tmp/flux_script_{script_id}.sh"` *)
TempScript(script_id) == "/tmp/flux_script_" \o script_id \o ".sh"

(* `str(x)` of an optional integer *)
StrOpt(x) == IF x = NoInt THEN None ELSE Str(CHOOSE n \in x : TRUE)

(* FluxAdapter.submit_job: the flag a field is passed with, None for a     *)
(* field the command line has no flag for.                                 *)
FluxFlag(f) ==
    IF f = "job_name" THEN "--setattr"
    ELSE IF f = "nodes" THEN "-N"
    ELSE IF f = "tasks_per_node" THEN "-n"
    ELSE IF f = "cpus_per_task" THEN "-c"
    ELSE IF f = "time_limit" THEN "-t"
    ELSE IF f = "output_path" THEN "-o"
    ELSE IF f = "error_path" THEN "-e"
    ELSE IF f = "working_dir" THEN "--cwd"
    ELSE None

(* `if params.<field>: cmd.extend([...])` *)
Extend(params, f, value) ==
    IF Supplied(params, f) THEN <<FluxFlag(f), value>> ELSE <<>>

(* FluxAdapter.submit_job: the `cmd` list *)
FluxSubmitArgv(params, temp_script) ==
    <<"flux", "submit">>
    \o Extend(params, "job_name", "user.name=" \o params.job_name)
    \o Extend(params, "nodes", StrOpt(params.nodes))
    \o Extend(params, "tasks_per_node", StrOpt(params.tasks_per_node))
    \o Extend(params, "cpus_per_task", StrOpt(params.cpus_per_task))
    \o Extend(params, "time_limit", params.time_limit)
    \o Extend(params, "output_path", params.output_path)
    \o Extend(params, "error_path", params.error_path)
    \o <<"--cwd", OrElse(params.working_dir, "/tmp")>>
    \o <<temp_script>>

(* What the exec of a command in the pod comes to: the exec call fails     *)
(* (ApiException), or the command runs and leaves its stdout, its stderr   *)
(* (both as characters) and its exit status.                               *)
ExecRaised ==
    [kind |-> "api_exception", stdout |-> <<>>, stderr |-> <<>>,
     status |-> 0]

ExecQuiet == [kind |-> "ran", stdout |-> <<>>, stderr |-> <<>>, status |-> 0]

(* `sh -c "echo ... | base64 -d > temp_script && chmod +x temp_script"` *)
WriteExecs ==
    {ExecRaised, ExecQuiet,
     [kind |-> "ran", stdout |-> <<>>, stderr |-> <<"s", "h", ":">>,
      status |-> 2]}

(* `flux submit ...`: the new job's id on stdout, or nothing, or an error  *)
(* on stderr and a non-zero exit status.                                   *)
SubmitExecs ==
    {ExecRaised,
     [kind |-> "ran", stdout |-> <<FluxGlyph, "A", "b", "\n">>,
      stderr |-> <<>>, status |-> 0],
     [kind |-> "ran", stdout |-> <<"\n">>, stderr |-> <<>>, status |-> 0],
     [kind |-> "ran", stdout |-> <<>>,
      stderr |-> <<"E", "R", "R", "O", "R", "\n">>, status |-> 1]}

(* `rm -f temp_script` *)
RmExecs ==
    {ExecRaised, ExecQuiet,
     [kind |-> "ran", stdout |-> <<>>, stderr |-> <<"r", "m", ":">>,
      status |-> 1]}

(* The command did not run to a zero exit status. *)
ExecFailed(pod, exec) ==
    pod # "pod" \/ exec.kind # "ran" \/ exec.status # 0

(* The string _exec_flux_command returns: stdout and stderr in one. *)
Merged(text) == text[1] \o text[2]

(* What is on its way out of a try block: nothing yet, a return value, or  *)
(* an exception.                                                           *)
NoResult == JobSubmitResult(FALSE, None, None, None)

NoPending == [kind |-> "none", result |-> NoResult, text |-> ""]

Returning(result) == [kind |-> "return", result |-> result, text |-> ""]

Raising(text) == [kind |-> "raise", result |-> NoResult, text |-> text]

(* One entry of the history of exec'd commands.  `reached` tells whether   *)
(* the exec call was made, that is whether a pod was found.                *)
Logged(cmd, path, pod, exec) ==
    [cmd |-> cmd, path |-> path, reached |-> pod = "pod",
     failed |-> ExecFailed(pod, exec)]

(* FluxAdapter.submit_job, lines 220-226: the temp path is chosen. *)
FluxSubmitBegin(params, script_id) ==
    /\ frame.pc = "idle"
    /\ frame' = [pc |-> "write", params |-> params,
                 temp_script |-> TempScript(script_id),
                 cmd |-> <<>>, primary |-> NoPending,
                 pending |-> NoPending]
    /\ execLog' = <<>>
    /\ realRet' = NoRet
    /\ UNCHANGED <<globalVars, regVars, mockVars, toolVars, backendJobs, jwt_token,
                   reader>>

(* Lines 229-230: the script is written into the pod.  An exception here   *)
(* is raised outside the inner try and goes to the outer handler.          *)
FluxSubmitWrite ==
    /\ frame.pc = "write"
    /\ \E pod \in PodLookups, exec \in WriteExecs :
           LET r == ExecFluxCommand(pod, exec)
           IN  /\ execLog' = Append(execLog,
                       Logged("write", frame.temp_script, pod, exec))
               /\ frame' = IF r.raised # "no"
                           THEN [frame EXCEPT
                                   !.pc = "except",
                                   !.pending = Raising(ExceptionText(r.raised))]
                           ELSE [frame EXCEPT !.pc = "submit"]
    /\ UNCHANGED <<globalVars, regVars, mockVars, toolVars, backendJobs, jwt_token,
                   realRet, reader>>

(* Lines 262-266: the result made from the output of `flux submit` *)
FluxSubmitOutcome(r) ==
    IF r.raised # "no" THEN Raising(ExceptionText(r.raised))
    ELSE LET job_id == Concat(Strip(Merged(r.text)))
         IN  IF job_id = ""
             THEN Returning(JobSubmitResult(FALSE, None, None,
                                            "No job ID returned."))
             ELSE Returning(JobSubmitResult(TRUE, job_id, "PENDING", None))

(* Lines 232-266: the command line is built and exec'd; what the try block *)
(* returns or raises is held until the finally clause has run.             *)
FluxSubmitExec ==
    /\ frame.pc = "submit"
    /\ \E pod \in PodLookups, exec \in SubmitExecs :
           LET cmd == FluxSubmitArgv(frame.params, frame.temp_script)
               out == FluxSubmitOutcome(ExecFluxCommand(pod, exec))
           IN  /\ execLog' = Append(execLog,
                       Logged("submit", frame.temp_script, pod, exec))
               /\ frame' = [frame EXCEPT !.pc = "cleanup", !.cmd = cmd,
                                         !.primary = out, !.pending = out]
    /\ UNCHANGED <<globalVars, regVars, mockVars, toolVars, backendJobs, jwt_token,
                   realRet, reader>>

(* Lines 271-274: `try: await ... except: pass` leaves what is on its way  *)
(* out of the try block as it was.                                         *)
AfterCleanupRaises(pending, r) ==
    IF r.raised # "no" THEN Raising(ExceptionText(r.raised)) ELSE pending

AfterCleanup(pending, r) == pending

(* Lines 268-274: the finally clause execs the removal of the temp file. *)
FluxSubmitCleanup ==
    /\ frame.pc = "cleanup"
    /\ \E pod \in PodLookups, exec \in RmExecs :
           LET r == ExecFluxCommand(pod, exec)
               out == AfterCleanup(frame.pending, r)
           IN  /\ execLog' = Append(execLog,
                       Logged("rm", frame.temp_script, pod, exec))
               /\ frame' = [frame EXCEPT
                               !.pc = IF out.kind = "raise" THEN "except"
                                      ELSE "return",
                               !.pending = out]
    /\ UNCHANGED <<globalVars, regVars, mockVars, toolVars, backendJobs, jwt_token,
                   realRet, reader>>

(* Lines 276-278: the outer handler turns an exception into a result. *)
FluxSubmitResult(pending) ==
    IF pending.kind = "raise"
    THEN JobSubmitResult(FALSE, None, None,
                         "Exception: " \o pending.text \o ", Type, Traceback")
    ELSE pending.result

(* The `flux submit` call failed, or no `flux submit` was run because the  *)
(* step before it raised.                                                  *)
FluxFailed(log) ==
    \/ \E i \in 1..Len(log) : log[i].cmd = "submit" /\ log[i].failed
    \/ \A i \in 1..Len(log) : log[i].cmd # "submit"

(* submit_job returns. *)
FluxSubmitReturn ==
    /\ frame.pc \in {"except", "return"}
    /\ realRet' = [op |-> "submit_job", adapter |-> "flux",
                   params |-> frame.params, request |-> frame.cmd,
                   failed |-> FluxFailed(execLog),
                   primary |-> FluxSubmitResult(frame.primary),
                   reply |-> FluxSubmitResult(frame.pending),
                   log |-> execLog]
    /\ frame' = IdleFrame
    /\ execLog' = <<>>
    /\ UNCHANGED <<globalVars, regVars, mockVars, toolVars, backendJobs, jwt_token,
                   reader>>

SubmitNext ==
    \/ \E params \in SubmitParamSets : SlurmSubmitJob(params)
    \/ \E params \in SubmitParamSets, script_id \in ScriptIds :
           FluxSubmitBegin(params, script_id)
    \/ FluxSubmitWrite
    \/ FluxSubmitExec
    \/ FluxSubmitCleanup
    \/ FluxSubmitReturn

SubmitInit ==
    /\ backendJobs = {}
    /\ jwt_token \in {None, "configured"}
    /\ realRet = NoRet
    /\ frame = IdleFrame
    /\ execLog = <<>>
    /\ reader = IdleReader

InitSubmit ==
    /\ RegIdle
    /\ MockIdle
    /\ SubmitInit
    /\ ToolIdle

SpecSubmit == InitSubmit /\ [][SubmitNext]_vars

(***************************************************************************)
(* Properties of submit_job, over SpecSubmit.                              *)
(***************************************************************************)
Submitted == realRet.op = "submit_job"

FluxSubmitted == realRet.op = "submit_job" /\ realRet.adapter = "flux"

(* C11: every JobSubmitResult that submit_job returns has exactly one of   *)
(* job_id and error populated: success=true comes with a non-empty job_id, *)
(* state "PENDING" and no error; success=false comes with an error message *)
(* and no job_id.                                                          *)
C11_ExactlyOnePopulated ==
    Submitted =>
        /\ realRet.reply.success =>
               /\ realRet.reply.job_id # None
               /\ realRet.reply.job_id # ""
               /\ realRet.reply.state = "PENDING"
               /\ realRet.reply.error = None
        /\ ~realRet.reply.success =>
               /\ realRet.reply.error # None
               /\ realRet.reply.error # ""
               /\ realRet.reply.job_id = None

(* C12: no adapter operation reports success when its backend call failed: *)
(* when the REST request returns an error or the exec'd command fails      *)
(* (error output, non-zero exit), submit_job returns success=false.        *)
C12_FailureNeverSuccess ==
    (Submitted /\ realRet.failed) => ~realRet.reply.success

(* C15: in the exec adapter's submit_job, for every call that attempts to  *)
(* write the temp script into the pod, a removal command for that same     *)
(* path has been exec'd by the time submit_job returns, whatever the       *)
(* outcome of the call.                                                    *)
C15_RemovalAlwaysRuns ==
    FluxSubmitted =>
        \A i \in 1..Len(realRet.log) :
            (realRet.log[i].cmd = "write" /\ realRet.log[i].reached) =>
                \E j \in (i + 1)..Len(realRet.log) :
                    /\ realRet.log[j].cmd = "rm"
                    /\ realRet.log[j].path = realRet.log[i].path

(* The removal step of the call that returned last. *)
RemovalStep(log) == {i \in 1..Len(log) : log[i].cmd = "rm"}

(* C16: a failure of the temp-script removal never changes what the exec   *)
(* adapter's submit_job returns: the result is the one the call had in     *)
(* hand before the removal step, which is what it returns when the removal *)
(* succeeds.                                                               *)
C16_CleanupFailureHarmless ==
    (FluxSubmitted /\ RemovalStep(realRet.log) # {}) =>
        realRet.reply = realRet.primary

C16_Witness ==
    /\ FluxSubmitted
    /\ \E i \in RemovalStep(realRet.log) : realRet.log[i].failed
    /\ realRet.reply.success

(* submit_job was not given the optional field f. *)
Absent(params, f) ==
    IF f \in OptionalIntFields THEN params[f] = NoInt ELSE params[f] = None

(* The request submit_job sent has an entry for the field f: a key of the  *)
(* REST job payload, a flag of the exec'd command line.                    *)
Forwarded(f) ==
    IF realRet.adapter = "slurm" THEN SlurmKey(f) \in DOMAIN realRet.request
    ELSE /\ FluxFlag(f) # None
         /\ \E i \in 1..Len(realRet.request) :
                realRet.request[i] = FluxFlag(f)

(* The working directory the request names. *)
ForwardedCwd ==
    IF realRet.adapter = "slurm"
    THEN {realRet.request["current_working_directory"]}
    ELSE {realRet.request[i + 1] : i \in {j \in 1..Len(realRet.request) - 1 :
                                             realRet.request[j] = "--cwd"}}

(* The call got as far as sending its submission request. *)
RequestSent == Submitted /\ realRet.request # <<>>

(* C18 as stated: for every optional JobSubmitParams field that is absent, *)
(* the request sent to the backend has no entry for that field.            *)
C18_AbsentNeverForwarded ==
    RequestSent =>
        \A f \in OptionalFields :
            Absent(realRet.params, f) => ~Forwarded(f)

(* C18, amended: for every optional JobSubmitParams field other than the   *)
(* working directory, an absent field has no entry in the request sent to  *)
(* the backend; an absent working directory is sent as "/tmp".             *)
C18_AbsentNotForwardedExceptCwd ==
    RequestSent =>
        /\ \A f \in OptionalFields \ {"working_dir"} :
               Absent(realRet.params, f) => ~Forwarded(f)
        /\ Absent(realRet.params, "working_dir") => ForwardedCwd = {"/tmp"}

C18_Witness ==
    /\ RequestSent
    /\ realRet.adapter = "flux"
    /\ Absent(realRet.params, "nodes")
    /\ Absent(realRet.params, "working_dir")
    /\ ~Absent(realRet.params, "job_name")
    /\ Forwarded("job_name")


(***************************************************************************)
(*                         THE run_and_wait TOOL                           *)
(*                                                                         *)
(* The tool calls the submit_job, get_job and get_job_output tools; what   *)
(* they answer is an input.  Time is counted in seconds; every await takes *)
(* some of it.                                                             *)
(***************************************************************************)

(* The arguments the tool is called with; zero is refused by validation. *)
TimeoutMinutes == 0..MaxTimeoutMinutes

PollIntervals == {0, 7, 45}

(* `terminal_states` *)
TerminalStates == {"COMPLETED", "FAILED", "CANCELLED", "TIMEOUT",
                   "NODE_FAIL", "PREEMPTED"}

(* `current_state in terminal_states` *)
IsTerminalOnlyCompleted(state) == state = "COMPLETED"

IsTerminal(state) == state \in TerminalStates

(* `timedelta(minutes=timeout_minutes)`, in seconds *)
Minutes(m) == 60 * m

(* `await asyncio.sleep(poll_interval)` suspends for at least the interval *)
SleepNone(poll_interval) == {0}

SleepTimes(poll_interval) == {poll_interval, poll_interval + 1}

(* How long a call of another tool takes. *)
CallTimes == {0, 4}

(* What the submit_job tool answers. *)
SubmitReplies ==
    {[success |-> TRUE, job_id |-> "1001", error |-> None],
     [success |-> TRUE, job_id |-> None, error |-> None],
     [success |-> FALSE, job_id |-> None, error |-> "Cluster not found"]}

(* What the get_job tool answers in the concise format: a failure, or the  *)
(* job as an adapter reports it (runtime is always HH:MM:SS).              *)
JobReport(state, exit_code, runtime) ==
    [success |-> TRUE, state |-> state, exit_code |-> exit_code,
     runtime |-> runtime]

PollReplies ==
    {[success |-> FALSE, state |-> None, exit_code |-> NoInt,
      runtime |-> None],
     JobReport("PENDING", NoInt, "00:00:00"),
     JobReport("RUNNING", NoInt, "00:15:23"),
     JobReport("UNKNOWN", NoInt, "00:00:00"),
     JobReport("COMPLETED", {0}, "00:15:23"),
     JobReport("FAILED", {1}, "00:00:07"),
     JobReport("CANCELLED", NoInt, "00:00:00"),
     JobReport("TIMEOUT", NoInt, "01:00:00"),
     JobReport("NODE_FAIL", NoInt, "00:00:07"),
     JobReport("PREEMPTED", NoInt, "00:15:23")}

(* What the get_job_output tool answers for output_type "both". *)
OutputReplies ==
    {[success |-> TRUE, stdout |-> "out", stderr |-> "err"],
     [success |-> FALSE, stdout |-> "", stderr |-> ""]}

NoPoll == [seen |-> FALSE, state |-> None, exit_code |-> NoInt,
           runtime |-> None]

(* Lines 58-105: validation and submission.  On a successful submission    *)
(* lines 108-113 take the start time and compute the deadline.             *)
RunAndWaitCall(timeout_minutes, poll_interval) ==
    /\ waiter.pc = "idle"
    /\ IF timeout_minutes < 1 \/ poll_interval < 1
       THEN /\ waiter' = [pc |-> "raised", error |-> "ToolError"]
            /\ now' = now
       ELSE \E reply \in SubmitReplies, took \in CallTimes :
                /\ now' = now + took
                /\ waiter' =
                     IF ~reply.success
                     THEN [pc |-> "refused",
                           result |-> [success |-> FALSE,
                                       error |-> "Job submission failed: "
                                                     \o reply.error]]
                     ELSE IF ~Truthy(reply.job_id)
                     THEN [pc |-> "refused",
                           result |-> [success |-> FALSE,
                                       error |-> "no job_id returned"]]
                     ELSE [pc |-> "loop",
                           timeout_minutes |-> timeout_minutes,
                           poll_interval |-> poll_interval,
                           job_id |-> reply.job_id,
                           start_time |-> now',
                           timeout_time |-> now' + Minutes(timeout_minutes),
                           final_state |-> None,
                           final_exit_code |-> NoInt,
                           final_runtime |-> None,
                           polls |-> 0,
                           lastPoll |-> {},
                           gaps |-> {},
                           nonTerminalOnly |-> TRUE,
                           firstTerminal |-> NoPoll,
                           exit |-> None]
    /\ UNCHANGED <<globalVars, regVars, mockVars, realVars>>

(* Lines 118-141: the deadline has not passed; the job is polled and      *)
(* answers `reply` after `took` seconds.  A failed poll or a terminal      *)
(* state leaves the loop.                                                  *)
PollStep(reply, took) ==
    /\ waiter.pc = "loop"
    /\ now < waiter.timeout_time
    /\ LET terminal == reply.success /\ IsTerminal(reply.state)
       IN  /\ now' = now + took
           /\ waiter' =
                [waiter EXCEPT
                   !.pc = IF ~reply.success \/ terminal THEN "finish"
                          ELSE "sleep",
                   !.final_state = IF terminal THEN reply.state ELSE @,
                   !.final_exit_code =
                       IF terminal THEN reply.exit_code ELSE @,
                   !.final_runtime = IF terminal THEN reply.runtime ELSE @,
                   !.polls = @ + 1,
                   !.exit = IF ~reply.success THEN "poll_failed"
                            ELSE IF terminal THEN "terminal" ELSE @,
                   !.lastPoll = {now'},
                   !.gaps = @ \cup {now - t : t \in waiter.lastPoll},
                   !.nonTerminalOnly =
                       @ /\ reply.success
                         /\ reply.state \notin TerminalStates,
                   !.firstTerminal =
                       IF ~@.seen /\ reply.success
                            /\ reply.state \in TerminalStates
                       THEN [seen |-> TRUE, state |-> reply.state,
                             exit_code |-> reply.exit_code,
                             runtime |-> reply.runtime]
                       ELSE @]

Poll ==
    /\ \E reply \in PollReplies, took \in CallTimes : PollStep(reply, took)
    /\ UNCHANGED <<globalVars, regVars, mockVars, realVars>>

(* Line 118: the deadline has passed; the loop ends. *)
Expire ==
    /\ waiter.pc = "loop"
    /\ ~(now < waiter.timeout_time)
    /\ waiter' = [waiter EXCEPT !.pc = "finish", !.exit = "deadline"]
    /\ UNCHANGED <<globalVars, regVars, mockVars, realVars, now>>

(* Line 144: `await asyncio.sleep(poll_interval)` *)
Sleep ==
    /\ waiter.pc = "sleep"
    /\ \E slept \in SleepTimes(waiter.poll_interval) : now' = now + slept
    /\ waiter' = [waiter EXCEPT !.pc = "loop"]
    /\ UNCHANGED <<globalVars, regVars, mockVars, realVars>>

(* Lines 147-152: the final state and the error message *)
FinalState(final_state) ==
    IF final_state = None THEN "TIMEOUT" ELSE final_state

ErrorMessage(final_state) ==
    IF final_state = None THEN "Job did not complete within the timeout"
    ELSE IF final_state = "COMPLETED" THEN None
    ELSE "Job ended with state: " \o final_state

(* Lines 178-191: the response; `error` is a key only when there is a      *)
(* message.                                                                *)
Response(w, output) ==
    LET state == FinalState(w.final_state)
        error_message == ErrorMessage(w.final_state)
        stdout == IF output.success THEN output.stdout ELSE ""
        stderr == IF output.success THEN output.stderr ELSE ""
    IN  IF Truthy(error_message)
        THEN [success |-> state = "COMPLETED", job_id |-> w.job_id,
              state |-> state, exit_code |-> w.final_exit_code,
              runtime |-> OrElse(w.final_runtime, "unknown"),
              stdout |-> stdout, stderr |-> stderr,
              error |-> error_message]
        ELSE [success |-> state = "COMPLETED", job_id |-> w.job_id,
              state |-> state, exit_code |-> w.final_exit_code,
              runtime |-> OrElse(w.final_runtime, "unknown"),
              stdout |-> stdout, stderr |-> stderr]

(* Lines 146-191: the output is fetched and the response returned.  The    *)
(* get_job_output tool raises only when the job id is blank, which a job   *)
(* id that get_job accepted is not.                                        *)
Finish ==
    /\ waiter.pc = "finish"
    /\ \E output \in OutputReplies, took \in CallTimes :
           /\ now' = now + took
           /\ waiter' = [waiter EXCEPT !.pc = "done"]
                            @@ [result |-> Response(waiter, output)]
    /\ UNCHANGED <<globalVars, regVars, mockVars, realVars>>

WaitNext ==
    \/ \E timeout_minutes \in TimeoutMinutes, poll_interval \in PollIntervals :
           RunAndWaitCall(timeout_minutes, poll_interval)
    \/ Poll
    \/ Expire
    \/ Sleep
    \/ Finish

InitWait ==
    /\ RegIdle
    /\ MockIdle
    /\ RealIdle
    /\ ToolIdle

(* Every await of the tool returns: a step that can be taken is taken. *)
SpecWait == InitWait /\ [][WaitNext]_vars /\ WF_vars(WaitNext)

(***************************************************************************)
(* Properties of run_and_wait, over SpecWait.                              *)
(***************************************************************************)

(* History kept in `waiter`: polls counts the polls, lastPoll and gaps the *)
(* time between two polls, nonTerminalOnly and firstTerminal what the      *)
(* polls reported, and exit how the loop was left ("deadline": the while   *)
(* test failed; "poll_failed", "terminal": one of the two breaks).         *)

(* The submission succeeded: the tool is polling, or is past the loop. *)
Polling == waiter.pc \in {"loop", "sleep", "finish", "done"}

Returned == waiter.pc = "done"

(* C13: if submission succeeds and every status poll reports a             *)
(* non-terminal state, run_and_wait eventually returns: it suspends for at *)
(* least poll_interval between two polls, tests on each iteration the      *)
(* deadline start + timeout_minutes that it computed once at entry, and    *)
(* once the deadline has passed it returns state TIMEOUT with              *)
(* success=false and an error saying the job did not complete.             *)
C13_TimesOut ==
    /\ [](Polling =>
            /\ waiter.timeout_time
                   = waiter.start_time + Minutes(waiter.timeout_minutes)
            /\ \A gap \in waiter.gaps : gap >= waiter.poll_interval
            /\ (Returned /\ waiter.nonTerminalOnly) =>
                   /\ now >= waiter.timeout_time
                   /\ waiter.result.state = "TIMEOUT"
                   /\ ~waiter.result.success
                   /\ "error" \in DOMAIN waiter.result
                   /\ waiter.result.error
                          = "Job did not complete within the timeout")
    /\ [][Polling => /\ waiter'.timeout_time = waiter.timeout_time
                     /\ waiter'.start_time = waiter.start_time]_vars
    /\ (Polling ~> Returned)

C13_Witness ==
    /\ Returned
    /\ waiter.nonTerminalOnly
    /\ waiter.polls >= 2
    /\ waiter.result.state = "TIMEOUT"

(* C14: when a status poll observes a terminal state, run_and_wait polls   *)
(* no more and reports that first observed terminal state as `state`, with *)
(* that poll's exit_code and runtime; success is true exactly when the     *)
(* state is COMPLETED, and the response has an `error` field exactly when  *)
(* it is not.                                                              *)
C14_FirstTerminalReported ==
    /\ []((Returned /\ waiter.firstTerminal.seen) =>
            /\ waiter.result.state = waiter.firstTerminal.state
            /\ waiter.result.exit_code = waiter.firstTerminal.exit_code
            /\ waiter.result.runtime = waiter.firstTerminal.runtime
            /\ waiter.result.success
                   <=> (waiter.firstTerminal.state = "COMPLETED")
            /\ ("error" \in DOMAIN waiter.result)
                   <=> (waiter.firstTerminal.state # "COMPLETED"))
    /\ [][(Polling /\ waiter.firstTerminal.seen) =>
              waiter'.polls = waiter.polls]_vars

C14_Witness ==
    /\ Returned
    /\ waiter.firstTerminal.seen
    /\ waiter.firstTerminal.state = "FAILED"
    /\ waiter.polls >= 2
    /\ waiter.result.exit_code = {1}


(***************************************************************************)
(*        THE STDIN BRANCH OF FluxAdapter._exec_flux_command               *)
(*                                                                         *)
(* The remote end of the stream is outside the program: in each iteration  *)
(* it may deliver data on stdout, on stderr, on both or on neither, and it *)
(* may close the stream.  Of the collected text the loop reads only        *)
(* whether its strip() is empty, so text is kept as one of "" (no          *)
(* character), " " (whitespace only) and "x" (some other character).       *)
(***************************************************************************)

(* `max_no_data_iterations = 30` *)
max_no_data_iterations == 30

(* `no_data_count >= 2` *)
IdleToStop == 2

(* What one update() can bring on stdout and on stderr. *)
Chunks == {"", " ", "x"}

(* `output += resp.read_stdout()` *)
Collect(text, chunk) ==
    IF text = "x" \/ chunk = "x" THEN "x"
    ELSE IF text = " " \/ chunk = " " THEN " "
    ELSE ""

(* `text.strip()` is not empty *)
HasText(text) == text = "x"

(* `no_data_count += 1` *)
AfterIdleStuck(n) == n

AfterIdle(n) == n + 1

(* Lines 117-133: stdin is written and the locals of the loop are set.     *)
(* The stream may be closed already.  `updates` is history: the parity of  *)
(* the number of update() calls made.                                      *)
ReadBegin ==
    /\ reader.pc = "idle"
    /\ \E open \in BOOLEAN :
           reader' = [pc |-> "loop", open |-> open, output |-> "",
                      stderr_output |-> "", no_data_count |-> 0,
                      had_data |-> FALSE, stopped |-> "no", updates |-> 0]
    /\ UNCHANGED <<globalVars, regVars, mockVars, toolVars, backendJobs, jwt_token,
                   realRet, frame, execLog>>

(* Lines 136-154: one iteration of the loop. *)
ReadIterate ==
    /\ reader.pc = "loop"
    /\ reader.open /\ reader.no_data_count < max_no_data_iterations
    /\ \E out \in Chunks, err \in Chunks, closes \in BOOLEAN :
           LET had_data == out # "" \/ err # ""
               output == Collect(reader.output, out)
               no_data_count == IF had_data THEN 0
                                ELSE AfterIdle(reader.no_data_count)
               breaks == HasText(output) /\ no_data_count >= IdleToStop
           IN  reader' = [reader EXCEPT
                            !.open = ~closes,
                            !.output = output,
                            !.stderr_output = Collect(@, err),
                            !.no_data_count = no_data_count,
                            !.had_data = had_data,
                            !.updates = (@ + 1) % 2,
                            !.pc = IF breaks THEN "close" ELSE "loop",
                            !.stopped = IF breaks THEN "break" ELSE "no"]
    /\ UNCHANGED <<globalVars, regVars, mockVars, toolVars, backendJobs, jwt_token,
                   realRet, frame, execLog>>

(* Line 136: the loop condition fails. *)
ReadExit ==
    /\ reader.pc = "loop"
    /\ ~(reader.open /\ reader.no_data_count < max_no_data_iterations)
    /\ reader' = [reader EXCEPT
                     !.pc = "close",
                     !.stopped = IF ~reader.open THEN "closed"
                                 ELSE "ceiling"]
    /\ UNCHANGED <<globalVars, regVars, mockVars, toolVars, backendJobs, jwt_token,
                   realRet, frame, execLog>>

(* Lines 156-163: the stream is closed; stderr text raises, otherwise the  *)
(* collected stdout is returned.                                           *)
ReadClose ==
    /\ reader.pc = "close"
    /\ reader' = [reader EXCEPT
                     !.pc = "done",
                     !.open = FALSE]
    /\ realRet' = [op |-> "_exec_flux_command",
                   raised |-> IF HasText(reader.stderr_output)
                              THEN "Command failed" ELSE "no",
                   text |-> IF HasText(reader.stderr_output) THEN ""
                            ELSE reader.output]
    /\ UNCHANGED <<globalVars, regVars, mockVars, toolVars, backendJobs, jwt_token,
                   frame, execLog>>

(* The next call of _exec_flux_command with stdin_data. *)
ReadAgain ==
    /\ reader.pc = "done"
    /\ reader' = IdleReader
    /\ realRet' = NoRet
    /\ UNCHANGED <<globalVars, regVars, mockVars, toolVars, backendJobs, jwt_token,
                   frame, execLog>>

ReadNext ==
    \/ ReadBegin
    \/ ReadIterate
    \/ ReadExit
    \/ ReadClose
    \/ ReadAgain

InitRead ==
    /\ RegIdle
    /\ MockIdle
    /\ RealIdle
    /\ ToolIdle

(* update(timeout=1) returns after at most a second: a step of the loop    *)
(* that can be taken is taken.                                             *)
SpecRead == InitRead /\ [][ReadNext]_vars /\ WF_vars(ReadNext)

Reading == reader.pc = "loop"

ReadOver == reader.pc \in {"close", "done"}

DurationChars == {"0", "1", "9", ".", "s", "m", "h", "d", "-", "x"}

DurationStrings == UNION {[1..n -> DurationChars] : n \in 0..MaxDurationLen}

(* The character class [\d.] *)
IsNumberChar(c) == IsDigit(c) \/ c = "."

IsDot(c) == c = "."

(* The length of the longest prefix matched by ([\d.]+): greedy, and the   *)
(* optional unit after it never makes it give a character back.            *)
RECURSIVE MatchLen(_)
MatchLen(str) ==
    IF str = <<>> \/ ~IsNumberChar(str[1]) THEN 0
    ELSE 1 + MatchLen(Tail(str))

(* `re.match(r"([\d.]+)([smhd]?)", duration_str)`: the two groups *)
Match(str) ==
    LET n == MatchLen(str)
    IN  [matched |-> n > 0,
         number |-> SubSeq(str, 1, n),
         unit |-> IF n < Len(str) /\ str[n + 1] \in {"s", "m", "h", "d"}
                  THEN str[n + 1] ELSE ""]

RECURSIVE Pow10(_)
Pow10(k) == IF k = 0 THEN 1 ELSE 10 * Pow10(k - 1)

(* float(text) for a text of digits and dots: the value num/den, or        *)
(* ValueError when there is no digit or more than one dot.                 *)
Float(text) ==
    LET digits == SelectSeq(text, IsDigit)
        dots == SelectSeq(text, IsDot)
        dot == IF dots = <<>> THEN Len(text)
               ELSE CHOOSE i \in 1..Len(text) : text[i] = "."
    IN  IF Len(dots) > 1 \/ digits = <<>>
        THEN [raised |-> "ValueError", num |-> 0, den |-> 1]
        ELSE [raised |-> "no", num |-> StrToInt(digits),
              den |-> Pow10(Len(text) - dot)]

(* `multipliers.get(unit, 1)`, after `unit = match.group(2) or "s"` *)
Multiplier(unit) ==
    IF unit = "m" THEN 60
    ELSE IF unit = "h" THEN 3600
    ELSE IF unit = "d" THEN 86400
    ELSE 1

(* `f"{n:02d}"` *)
Pad2(n) == IF n < 10 THEN <<"0">> \o IntToStr(n) ELSE IntToStr(n)

(* `f"{hours:02d}:{minutes:02d}:{seconds:02d}"` *)
FormatHMS(total_seconds) ==
    Concat(Pad2(total_seconds \div 3600) \o <<":">>
           \o Pad2((total_seconds % 3600) \div 60) \o <<":">>
           \o Pad2(total_seconds % 60))

(* _parse_flux_duration: the string returned, or the exception raised *)
ParseFluxDuration(duration_str) ==
    IF duration_str = <<>> \/ duration_str = <<"-">>
    THEN [raised |-> "no", text |-> "00:00:00"]
    ELSE LET m == Match(duration_str)
             value == Float(m.number)
         IN  IF ~m.matched THEN [raised |-> "no", text |-> "00:00:00"]
             ELSE IF value.raised # "no"
             THEN [raised |-> value.raised, text |-> ""]
             ELSE [raised |-> "no",
                   text |-> FormatHMS((value.num * Multiplier(m.unit))
                                          \div value.den)]

(* The parser is called with the string drawn at the start. *)
ParseDuration ==
    /\ realRet.op = "call"
    /\ realRet' = [op |-> "_parse_flux_duration", arg |-> realRet.arg,
                   result |-> ParseFluxDuration(realRet.arg)]
    /\ UNCHANGED <<globalVars, regVars, mockVars, toolVars, backendJobs, jwt_token,
                   frame, execLog, reader>>

DurationNext == ParseDuration

DurationInit ==
    /\ backendJobs = {}
    /\ jwt_token = None
    /\ realRet \in {[op |-> "call", arg |-> d] : d \in DurationStrings}
    /\ frame = IdleFrame
    /\ execLog = <<>>
    /\ reader = IdleReader

InitDuration ==
    /\ RegIdle
    /\ MockIdle
    /\ DurationInit
    /\ ToolIdle

SpecDuration == InitDuration /\ [][DurationNext]_vars

(* A numeric value with an optional unit suffix: digits with at most one   *)
(* decimal point, then nothing or one of s, m, h, d.                       *)
IsNumber(text) ==
    /\ text # <<>>
    /\ \A i \in 1..Len(text) : IsNumberChar(text[i])
    /\ Float(text).raised = "no"

WellFormed(str) ==
    \/ IsNumber(str)
    \/ /\ str # <<>>
       /\ str[Len(str)] \in {"s", "m", "h", "d"}
       /\ IsNumber(SubSeq(str, 1, Len(str) - 1))

(* The seconds a well-formed duration stands for, rounded down. *)
SecondsOf(str) ==
    LET last == str[Len(str)]
        number == IF IsDigit(last) \/ last = "." THEN str
                  ELSE SubSeq(str, 1, Len(str) - 1)
        unit == IF IsDigit(last) \/ last = "." THEN "s" ELSE last
    IN  (Float(number).num * Multiplier(unit)) \div Float(number).den

(* C20: the duration parser turns a numeric value with an optional unit    *)
(* suffix s/m/h/d (default s) into the total seconds written as            *)
(* zero-padded HH:MM:SS, and for every empty, "-" or malformed input it    *)
(* returns "00:00:00"; it never raises.                                    *)
C20_DurationParsed ==
    realRet.op = "_parse_flux_duration" =>
        /\ realRet.result.raised = "no"
        /\ realRet.result.text =
               IF WellFormed(realRet.arg)
               THEN FormatHMS(SecondsOf(realRet.arg))
               ELSE "00:00:00"


(***************************************************************************)
(*         TIMESTAMPS IN get_job OF THE REST AND THE EXEC ADAPTER          *)
(***************************************************************************)

(* The timestamp wrappers of a Slurm job record: no wrapper (the key is    *)
(* missing, `job_data.get(key, {})`) or an empty one, a wrapper flagged    *)
(* unset, one that is set to zero, one without the flag, and one that is   *)
(* set.  Numbers are seconds since the epoch.                              *)
TimestampDicts ==
    {EmptyMap,
     [set |-> FALSE, number |-> 0],
     [set |-> TRUE, number |-> 0],
     [set |-> FALSE, number |-> 5],
     [number |-> 5],
     [set |-> TRUE, number |-> 5]}

(* `d.get("set")` is truthy *)
FlaggedSet(d) == "set" \in DOMAIN d /\ d.set

(* `d.get("number", 0)` *)
NumberOf(d) == IF "number" \in DOMAIN d THEN d.number ELSE 0

EpochZero == "1970-01-01T00:00:00+00:00"

(* `datetime.fromtimestamp(ts, tz=timezone.utc).isoformat()` for the time  *)
(* num/den seconds after the epoch, less than a minute and with at most    *)
(* one decimal.                                                            *)
IsoFormat(num, den) ==
    "1970-01-01T00:00:" \o Concat(Pad2(num \div den))
        \o (IF num % den = 0 THEN ""
            ELSE "." \o Str(((num % den) * 10) \div den) \o "00000")
        \o "+00:00"

(* SlurmAdapter._format_timestamp *)
FormatTimestamp(timestamp_dict) ==
    IF DOMAIN timestamp_dict = {} \/ ~FlaggedSet(timestamp_dict) THEN ""
    ELSE IF NumberOf(timestamp_dict) = 0 THEN ""
    ELSE IsoFormat(NumberOf(timestamp_dict), 1)

(* SlurmAdapter.get_job, lines 186-191 and 210-216: the three timestamps   *)
(* of the JobDetails.                                                      *)
SlurmJobTimes(submitted_ts, start_ts, end_ts) ==
    LET end_num == IF DOMAIN end_ts = {} THEN 0 ELSE NumberOf(end_ts)
    IN  [submitted |-> FormatTimestamp(submitted_ts),
         started |-> FormatTimestamp(start_ts),
         ended |-> IF end_num > 0 THEN FormatTimestamp(end_ts) ELSE None]

(* The backend timestamp is zero, flagged unset, or absent. *)
SlurmUnset(d) == DOMAIN d = {} \/ ~FlaggedSet(d) \/ NumberOf(d) = 0

SlurmGetJob(submitted_ts, start_ts, end_ts) ==
    /\ realRet' = [op |-> "get_job", adapter |-> "slurm",
                   backend |-> <<submitted_ts, start_ts, end_ts>>,
                   unset |-> [submitted |-> SlurmUnset(submitted_ts),
                              started |-> SlurmUnset(start_ts),
                              ended |-> SlurmUnset(end_ts)],
                   raised |-> "no",
                   job |-> SlurmJobTimes(submitted_ts, start_ts, end_ts)]
    /\ jwt_token' = TokenAfterRequest(jwt_token)
    /\ UNCHANGED <<globalVars, regVars, mockVars, toolVars, backendJobs, frame, execLog,
                   reader>>

(* The {t_submit}, {t_run} and {t_inactive} fields of a line of            *)
(* `flux jobs`: a hyphen, or seconds since the epoch.                      *)
FluxTimes == {<<"-">>, <<"0">>, <<"0", ".", "0">>, <<"9", ".", "1">>}

(* `datetime.fromtimestamp(float(t), tz=timezone.utc).isoformat() if       *)
(* t != "-" else absent` *)
FluxTime(t, absent) ==
    IF t = <<"-">> THEN absent
    ELSE IsoFormat(Float(t).num, Float(t).den)

(* FluxAdapter.get_job, lines 330-345 *)
FluxJobTimes(t_submit, t_run, t_inactive) ==
    [submitted |-> FluxTime(t_submit, ""),
     started |-> FluxTime(t_run, None),
     ended |-> FluxTime(t_inactive, None)]

FluxUnset(t) == t = <<"-">> \/ Float(t).num = 0

FluxGetJob(t_submit, t_run, t_inactive) ==
    /\ realRet' = [op |-> "get_job", adapter |-> "flux",
                   backend |-> <<t_submit, t_run, t_inactive>>,
                   unset |-> [submitted |-> FluxUnset(t_submit),
                              started |-> FluxUnset(t_run),
                              ended |-> FluxUnset(t_inactive)],
                   raised |-> "no",
                   job |-> FluxJobTimes(t_submit, t_run, t_inactive)]
    /\ UNCHANGED <<globalVars, regVars, mockVars, toolVars, backendJobs, jwt_token,
                   frame, execLog, reader>>

GetJobNext ==
    \/ \E submitted_ts \in TimestampDicts, start_ts \in TimestampDicts,
          end_ts \in TimestampDicts :
           SlurmGetJob(submitted_ts, start_ts, end_ts)
    \/ \E t_submit \in FluxTimes, t_run \in FluxTimes,
          t_inactive \in FluxTimes :
           FluxGetJob(t_submit, t_run, t_inactive)

InitGetJob ==
    /\ RegIdle
    /\ MockIdle
    /\ RealIdle
    /\ ToolIdle

SpecGetJob == InitGetJob /\ [][GetJobNext]_vars

(* C19: in get_job a backend timestamp that is zero, flagged unset or      *)
(* absent is reported as the empty string in the concise field `submitted` *)
(* and as null in the detailed fields `started` and `ended`; no field      *)
(* shows the epoch-zero date, and no detailed field is the empty string.   *)
C19_UnsetTimestamps ==
    realRet.op = "get_job" =>
        /\ realRet.unset.submitted => realRet.job.submitted = ""
        /\ realRet.unset.started => realRet.job.started = None
        /\ realRet.unset.ended => realRet.job.ended = None
        /\ \A f \in {"submitted", "started", "ended"} :
               realRet.job[f] # EpochZero
        /\ realRet.job.started # ""
        /\ realRet.job.ended # ""


(***************************************************************************)
(*              THE TWO PROJECTIONS OF JobDetails (base.py)                *)
(***************************************************************************)

(* The fields of the dataclass, in the order of their declaration. *)
ConciseFields ==
    {"job_id", "name", "state", "submitted", "runtime", "exit_code"}

DetailedFields ==
    {"user", "partition", "started", "ended", "time_limit", "resources",
     "allocated_nodes", "working_directory", "stdout_path", "stderr_path"}

(* JobDetails values: the six required fields and the optional ones, each  *)
(* optional field left at its default None or given a value.  exit_code    *)
(* is an optional integer.                                                 *)
JobDetailsSet ==
    {[job_id |-> "1000", name |-> name, state |-> state,
      submitted |-> submitted, runtime |-> "00:15:23",
      exit_code |-> exit_code,
      user |-> user, partition |-> None, started |-> started,
      ended |-> None, time_limit |-> None, resources |-> None,
      allocated_nodes |-> None, working_directory |-> None,
      stdout_path |-> stdout_path, stderr_path |-> None] :
        name \in {"", "mock-job"},
        state \in {"PENDING", "COMPLETED", "FAILED"},
        submitted \in {"", EpochZero},
        exit_code \in {NoInt, {0}, {1}},
        user \in {None, "mock-user"},
        started \in {None, "", EpochZero},
        stdout_path \in {None, "/tmp/out"}}

(* `result.update(other)`: the keys of `other` are added, and a key of     *)
(* `result` that `other` has too takes the value of `other`.               *)
UpdateReplacing(result, other) == other

Update(result, other) ==
    [k \in DOMAIN result \cup DOMAIN other |->
        IF k \in DOMAIN other THEN other[k] ELSE result[k]]

(* JobDetails.to_concise_dict *)
ToConciseDict(self) == [k \in ConciseFields |-> self[k]]

(* JobDetails.to_detailed_dict *)
ToDetailedDict(self) ==
    Update(ToConciseDict(self), [k \in DetailedFields |-> self[k]])

(* A dictionary that was not asked for yet is the empty set, one that was  *)
(* is the set of it.                                                       *)
ConciseCall ==
    /\ realRet.op = "JobDetails"
    /\ realRet' = [realRet EXCEPT !.concise = {ToConciseDict(realRet.self)}]
    /\ UNCHANGED <<globalVars, regVars, mockVars, toolVars, backendJobs, jwt_token,
                   frame, execLog, reader>>

DetailedCall ==
    /\ realRet.op = "JobDetails"
    /\ realRet' = [realRet EXCEPT
                       !.detailed = {ToDetailedDict(realRet.self)}]
    /\ UNCHANGED <<globalVars, regVars, mockVars, toolVars, backendJobs, jwt_token,
                   frame, execLog, reader>>

ProjectNext == ConciseCall \/ DetailedCall

ProjectInit ==
    /\ backendJobs = {}
    /\ jwt_token = None
    /\ realRet \in {[op |-> "JobDetails", self |-> j, concise |-> {},
                     detailed |-> {}] : j \in JobDetailsSet}
    /\ frame = IdleFrame
    /\ execLog = <<>>
    /\ reader = IdleReader

InitProject ==
    /\ RegIdle
    /\ MockIdle
    /\ ProjectInit
    /\ ToolIdle

SpecProject == InitProject /\ [][ProjectNext]_vars

Projected == realRet.op = "JobDetails"

(* C21: for every JobDetails value, each key of to_concise_dict() is a     *)
(* key of to_detailed_dict() with the identical value: the detailed        *)
(* projection never omits or alters a concise field.                       *)
C21_DetailedExtendsConcise ==
    Projected =>
        \A c \in realRet.concise, d \in realRet.detailed :
            /\ DOMAIN c = ConciseFields
            /\ \A k \in DOMAIN c : k \in DOMAIN d /\ d[k] = c[k]

(* Both projections of a job with an exit code and a detailed field set    *)
(* have been taken.                                                        *)
C21_Witness ==
    /\ Projected
    /\ realRet.concise # {}
    /\ realRet.detailed # {}
    /\ realRet.self.exit_code = {1}
    /\ realRet.self.started = EpochZero


(***************************************************************************)
(*        get_registry AND reset_registry (cluster_registry.py)            *)
(***************************************************************************)

(* `asyncio.create_task(coro)`: the task is handed to the running event    *)
(* loop; without one, asyncio.get_running_loop() raises                    *)
(* RuntimeError("no running event loop").                                  *)
CreateTask(loop_running) ==
    IF loop_running THEN "scheduled" ELSE "RuntimeError"

(* get_registry: `if _registry is None: _registry = ClusterRegistry()`.    *)
(* The constructor starts from empty mappings and loads the configuration  *)
(* file.  The result remembers the reset_registry call it follows, if it   *)
(* follows one.                                                            *)
GetRegistry ==
    /\ IF registry = 0
       THEN /\ created < MaxRegistries
            /\ created' = created + 1
            /\ registry' = created + 1
            /\ configs' = loaded
            /\ ClearCache
            /\ first' = EmptyMap
            /\ closer' = IdleCloser
       ELSE UNCHANGED <<created, registry, configs, adapters, order, first,
                        closer>>
    /\ globRet' = [op |-> "get_registry", instance |-> registry',
                   after |-> IF globRet.op = "reset_registry"
                             THEN {globRet} ELSE {}]
    /\ UNCHANGED <<loaded, tasks, objs, closed, use_mock, regRet, cleared,
                   racePc, raceArg, raceObj, raceRet>>
    /\ UNCHANGED <<mockVars, realVars, toolVars>>

(* reset_registry, called where an event loop is running or not.  The      *)
(* assignment `_registry = None` follows the create_task call, so it is    *)
(* not reached when that call raises.                                      *)
ResetRegistry(loop_running) ==
    /\ IF registry # 0
       THEN LET task == CreateTask(loop_running)
            IN  IF task = "scheduled"
                THEN /\ tasks' = tasks \cup {[instance |-> registry,
                                              adapters |-> Range(adapters)]}
                     /\ registry' = 0
                     /\ globRet' = [op |-> "reset_registry", raised |-> "no",
                                    loop_running |-> loop_running,
                                    previous |-> registry,
                                    cached |-> DOMAIN adapters]
                ELSE /\ globRet' = [op |-> "reset_registry", raised |-> task,
                                    loop_running |-> loop_running,
                                    previous |-> registry,
                                    cached |-> DOMAIN adapters]
                     /\ UNCHANGED <<tasks, registry>>
       ELSE /\ registry' = 0
            /\ globRet' = [op |-> "reset_registry", raised |-> "no",
                           loop_running |-> loop_running,
                           previous |-> registry, cached |-> {}]
            /\ UNCHANGED tasks
    /\ UNCHANGED <<created, loaded, regVars, mockVars, realVars, toolVars>>

(* The event loop runs a close_all() task that reset_registry created: it  *)
(* closes the adapters of the registry it was created for and clears that  *)
(* registry's cache.  The registry variables describe the registry         *)
(* constructed last; an older one is referenced by its task alone.         *)
RunCloseTask(t) ==
    /\ t \in tasks
    /\ tasks' = tasks \ {t}
    /\ closed' = closed \cup t.adapters
    /\ cleared' = cleared \cup t.adapters
    /\ IF t.instance = created
       THEN ClearCache /\ first' = EmptyMap
       ELSE UNCHANGED <<adapters, order, first>>
    /\ UNCHANGED <<registry, created, loaded, globRet, configs, objs,
                   use_mock, closer, regRet, racePc, raceArg, raceObj,
                   raceRet>>
    /\ UNCHANGED <<mockVars, realVars, toolVars>>

(* `get_registry().get_adapter(name)` *)
RegistryGetAdapter(n) ==
    /\ registry # 0
    /\ GetAdapter(n)

ResetNext ==
    \/ GetRegistry
    \/ \E loop_running \in BOOLEAN : ResetRegistry(loop_running)
    \/ \E t \in tasks : RunCloseTask(t)
    \/ \E n \in ConfigNames : RegistryGetAdapter(n)

(* Configuration files that define both clusters, without secrets. *)
ResetConfigs ==
    [ConfigNames -> [type : {"slurm", "mock"}, mock_type : {None},
                     jwt_token : {None}]]

(* The module has just been imported: no registry exists yet. *)
InitReset ==
    /\ configs = EmptyMap
    /\ registry = 0
    /\ created = 0
    /\ loaded \in ResetConfigs
    /\ tasks = {}
    /\ globRet = NoRet
    /\ adapters = EmptyMap
    /\ order = <<>>
    /\ objs = <<>>
    /\ closed = {}
    /\ use_mock \in BOOLEAN
    /\ closer = IdleCloser
    /\ regRet = NoRet
    /\ first = EmptyMap
    /\ cleared = {}
    /\ racePc = [t \in Threads |-> "idle"]
    /\ raceArg = [t \in Threads |-> None]
    /\ raceObj = [t \in Threads |-> 0]
    /\ raceRet = [t \in Threads |-> NoRet]
    /\ MockIdle
    /\ RealIdle
    /\ ToolIdle

SpecReset == InitReset /\ [][ResetNext]_vars

(* get_registry() has just been called, and the call of the two global     *)
(* functions before it was reset_registry() on an existing registry.       *)
AfterReset ==
    /\ globRet.op = "get_registry"
    /\ \E r \in globRet.after : r.previous # 0

(* C22: reset_registry() gives test isolation in every calling context,    *)
(* from synchronous code or inside a running event loop: the next          *)
(* get_registry() returns a newly constructed registry whose adapter cache *)
(* is empty, and not the previous instance.                                *)
C22_ResetIsolates ==
    AfterReset =>
        \A r \in globRet.after :
            /\ r.raised = "no"
            /\ globRet.instance # r.previous
            /\ adapters = EmptyMap


(***************************************************************************)
(*        THE LIST AND QUERY OPERATIONS OF THE MOCK ADAPTER                *)
(***************************************************************************)

(* Arguments of the list_jobs tool after its normalisation of `state` and  *)
(* `user`: limits below, at and above the five jobs the mock seeds.        *)
ToolLimits == {0, 1, 5, 100}

ToolListInputs ==
    [user : {None}, state : {None, "RUNNING", "FAILED"}, limit : ToolLimits,
     response_format : {"concise", "detailed"}]

(* job_details.to_concise_dict() / to_detailed_dict() on the fields the    *)
(* mock's jobs carry here.                                                 *)
FormatJob(job, response_format) ==
    LET d == IF response_format = "concise" THEN job
             ELSE Update(job, [k \in {"user"} |-> job[k]])
        keys == IF response_format = "concise"
                THEN ConciseFields \cap DOMAIN job ELSE DOMAIN d
    IN  [k \in keys |-> d[k]]

(* The list_jobs tool (tools/list_jobs.py) on a mock adapter: validation   *)
(* of the limit, adapter.list_jobs, formatting, and the response.          *)
(* `matching` is history: how many jobs of the store passed the filters.   *)
ToolListJobs(user, state, limit, response_format) ==
    /\ jobs = EmptyMap => job_counter + SeedCount <= CounterCap
    /\ IF limit < 1
       THEN /\ mockRet' = [op |-> "tools.list_jobs", raised |-> "ToolError",
                           limit |-> limit]
            /\ UNCHANGED <<jobs, job_counter, generated>>
       ELSE \E st \in {Seeded} :
            \E kept \in {{job \in Range(st.jobs) : Kept(job, user, state)}} :
            \E job_details_list \in {Slice(SortDesc(kept), limit)} :
            \E formatted \in {[i \in 1..Len(job_details_list) |->
                                  FormatJob(job_details_list[i],
                                            response_format)]} :
                /\ jobs' = st.jobs
                /\ job_counter' = st.counter
                /\ generated' = st.gen
                /\ mockRet' = [op |-> "tools.list_jobs", raised |-> "no",
                               limit |-> limit,
                               matching |-> Cardinality(kept),
                               result |-> [success |-> TRUE,
                                           jobs |-> formatted,
                                           total |-> Len(formatted),
                                           filtered |-> (user # None
                                                          \/ state # None)]]
    /\ UNCHANGED <<mock_type, batchIn, live>>
    /\ UNCHANGED <<globalVars, regVars, realVars, toolVars>>

(* The list and query operations next to submit_job, which fills the       *)
(* store without them.                                                     *)
QueryNext ==
    \/ \E in \in ToolListInputs :
           ToolListJobs(in.user, in.state, in.limit, in.response_format)
    \/ \E job_name \in JobNames : SubmitJob(job_name)
    \/ \E job_id \in AskIds : GetJob(job_id)
    \/ \E limit \in Limits : ListJobs(None, None, limit)
    \/ GetQueueStatus
    \/ \E limit \in Limits : GetAccounting(limit)
    \/ GetResources

SpecQuery == InitMock /\ [][QueryNext]_vars

QueryOps ==
    {"list_jobs", "get_job", "get_queue_status", "get_accounting",
     "get_resources"}

(* C23: the mock adapter materializes jobs only when none exist yet: a     *)
(* list or query operation (list_jobs, get_job, get_queue_status,          *)
(* get_accounting, get_resources) made while the job store holds at least  *)
(* one job adds no job to the store.                                       *)
C23_MaterializesOnlyWhenEmpty ==
    [][(jobs # EmptyMap /\ mockRet'.op \in QueryOps)
           => DOMAIN jobs' = DOMAIN jobs]_vars


(* The list_jobs tool has answered. *)
ToolListed == mockRet.op = "tools.list_jobs" /\ mockRet.raised = "no"

(* C24: in the list_jobs tool response, `total` is the number of jobs      *)
(* matching the filters before the limit is applied, so it can exceed the  *)
(* number of entries in `jobs` when the limit truncates the result.        *)
C24_TotalBeforeLimit ==
    ToolListed => mockRet.result.total = mockRet.matching


(***************************************************************************)
(*                 IDS THAT submit_job OF THE MOCK RETURNS                 *)
(***************************************************************************)

(* C25: job ids in one MockAdapter are unique: for any sequence of         *)
(* submit_job, submit_batch, get_job, list_jobs and cancel_job calls,      *)
(* every id returned by submit_job differs from every id already in the    *)
(* job store, so a submission never overwrites an existing job's record.   *)
C25_SubmitIdFresh ==
    [][(mockRet'.op = "submit_job" /\ job_counter' # job_counter)
           => mockRet'.job_id \notin DOMAIN jobs]_vars


(***************************************************************************)
(*               WHEN run_and_wait REPORTS A TIMEOUT                       *)
(***************************************************************************)

(* The response says the job did not complete in time. *)
ReportsTimeout ==
    /\ Returned
    /\ waiter.result.state = "TIMEOUT"
    /\ "error" \in DOMAIN waiter.result
    /\ waiter.result.error = "Job did not complete within the timeout"

(* C26: run_and_wait returns state TIMEOUT with the "did not complete      *)
(* within N minutes" error only when the current time has reached the      *)
(* deadline without a terminal state having been observed; no other exit   *)
(* from the poll loop produces that result.                                *)
C26_TimeoutOnlyAtDeadline ==
    ReportsTimeout =>
        /\ waiter.exit = "deadline"
        /\ now >= waiter.timeout_time
        /\ ~waiter.firstTerminal.seen


(***************************************************************************)
(*          THE STATE FluxAdapter.get_job REPORTS, AND run_and_wait        *)
(***************************************************************************)

(* FluxAdapter._normalize_state: `state_map.get(flux_state, flux_state)` *)
StateMap ==
    [DEPEND |-> "PENDING", SCHED |-> "PENDING", RUN |-> "RUNNING",
     INACTIVE |-> "COMPLETED", CANCELED |-> "CANCELLED",
     TIMEOUT |-> "TIMEOUT"]

NormalizeState(flux_state) ==
    IF flux_state \in DOMAIN StateMap THEN StateMap[flux_state]
    ELSE flux_state

(* get_job, lines 320-328: the exit code inferred from {result} *)
FluxExitCode(result) ==
    IF result = "COMPLETED" THEN {0}
    ELSE IF result = "FAILED" THEN {1}
    ELSE NoInt

(* The job's line of `flux jobs -a`: its {state} and {result} fields.  An  *)
(* active job has no result; an inactive one has one of four.  `found` is  *)
(* false when the output has no line for the job.                          *)
FluxLines ==
    {[found |-> TRUE, state |-> st, result |-> "-"] :
         st \in {"DEPEND", "PRIORITY", "SCHED", "RUN", "CLEANUP"}}
    \cup {[found |-> TRUE, state |-> "INACTIVE", result |-> r] :
              r \in {"COMPLETED", "FAILED", "CANCELED", "TIMEOUT"}}
    \cup {[found |-> FALSE, state |-> "-", result |-> "-"]}

(* The {runtime} field of the line. *)
FluxRuntime == <<"9">>

(* The JobDetails get_job builds from the line: the fields of the concise  *)
(* format that depend on it.                                               *)
FluxJobStatus(line) ==
    [state |-> NormalizeState(line.state),
     exit_code |-> FluxExitCode(line.result),
     runtime |-> ParseFluxDuration(FluxRuntime).text]

(* The get_job tool on the exec adapter, concise format: the job, or       *)
(* success false when the adapter raised ("Job ... not found").            *)
FluxReport(line) ==
    IF line.found
    THEN LET job == FluxJobStatus(line)
         IN  JobReport(job.state, job.exit_code, job.runtime)
    ELSE [success |-> FALSE, state |-> None, exit_code |-> NoInt,
          runtime |-> None]

(* run_and_wait polls a job of the exec adapter: get_job runs              *)
(* `flux jobs`, whose line for the job is `line`.                          *)
FluxPoll(line) ==
    /\ \E took \in CallTimes : PollStep(FluxReport(line), took)
    /\ realRet' = [op |-> "get_job", adapter |-> "flux", backend |-> line,
                   raised |-> IF line.found THEN "no" ELSE "Exception",
                   job |-> IF line.found THEN {FluxJobStatus(line)} ELSE {}]
    /\ UNCHANGED <<globalVars, regVars, mockVars, backendJobs, jwt_token,
                   frame, execLog, reader>>

FluxWaitNext ==
    \/ \E timeout_minutes \in TimeoutMinutes, poll_interval \in PollIntervals :
           RunAndWaitCall(timeout_minutes, poll_interval)
    \/ \E line \in FluxLines : FluxPoll(line)
    \/ Expire
    \/ Sleep
    \/ Finish

SpecFluxWait == InitWait /\ [][FluxWaitNext]_vars

(* The last poll found the job's line. *)
FluxPolled ==
    /\ Polling
    /\ realRet.op = "get_job"
    /\ realRet.adapter = "flux"
    /\ realRet.raised = "no"

(* C27: for the exec (Flux) adapter the unified state of an inactive job   *)
(* reflects the backend's result tag: get_job reports COMPLETED only when  *)
(* the result tag is COMPLETED, so a job whose result tag is FAILED        *)
(* (exit_code inferred as 1) is never reported as COMPLETED and            *)
(* run_and_wait never returns success=true for it.                         *)
C27_StateReflectsResult ==
    FluxPolled =>
        \A job \in realRet.job :
            /\ job.state = "COMPLETED" => realRet.backend.result = "COMPLETED"
            /\ realRet.backend.result = "FAILED" =>
                   /\ job.exit_code = {1}
                   /\ job.state # "COMPLETED"
                   /\ Returned => ~waiter.result.success


(***************************************************************************)
(*              get_adapter INTERLEAVED WITH close_all                     *)
(***************************************************************************)

(* C28: when get_adapter calls from other tasks interleave with close_all  *)
(* at its await points, close_all still completes without error and every  *)
(* adapter that leaves the cache has had close() invoked; no adapter is    *)
(* dropped from the cache unclosed and no adapter remains cached after     *)
(* being closed.                                                           *)
C28_CloseAllSurvivesInterleaving ==
    /\ regRet.op = "close_all" => regRet.kind = "ok"
    /\ cleared \subseteq closed
    /\ closer.pc = "idle" => Range(adapters) \cap closed = {}


(***************************************************************************)
(*            THE STORED CONFIGURATIONS UNDER REGISTRY OPERATIONS          *)
(***************************************************************************)

(* C29: registry operations never modify the stored cluster                *)
(* configurations: after any sequence of get_adapter, get_cluster_info,    *)
(* list_clusters and close_all calls, in test (mock) mode or not, the      *)
(* configuration held for each cluster equals the configuration as loaded, *)
(* and what get_cluster_info returns for a cluster does not depend on      *)
(* whether get_adapter was called before it.                               *)
C29_ConfigsUntouched ==
    /\ configs = loaded
    /\ (regRet.op = "get_cluster_info" /\ regRet.kind = "ok") =>
           regRet.value = Redact(loaded[regRet.name])


(***************************************************************************)
(*                        SlurmAdapter.list_jobs                           *)
(***************************************************************************)

(* SlurmAdapter._normalize_state *)
SlurmStateMap ==
    [PENDING |-> "PENDING", RUNNING |-> "RUNNING",
     COMPLETED |-> "COMPLETED", FAILED |-> "FAILED",
     CANCELLED |-> "CANCELLED", TIMEOUT |-> "TIMEOUT",
     NODE_FAIL |-> "FAILED", PREEMPTED |-> "CANCELLED",
     COMPLETING |-> "RUNNING", CONFIGURING |-> "PENDING"]

SlurmNormalizeState(slurm_state) ==
    IF slurm_state \in DOMAIN SlurmStateMap THEN SlurmStateMap[slurm_state]
    ELSE slurm_state

(* The entries of the `jobs` list of GET /slurm/v0.0.40/jobs: the owner    *)
(* and the first element of job_state; one kind of entry has no job_id.    *)
(* An entry with an id has its position in the list as id.                 *)
JobDatas ==
    [has_id : {TRUE}, user_name : {"alice", "bob"},
     job_state : {"RUNNING", "COMPLETING", "PENDING"}]
    \cup [has_id : {FALSE}, user_name : {"alice"}, job_state : {"RUNNING"}]

JobLists == UNION {[1..n -> JobDatas] : n \in 0..MaxResponseJobs}

(* What the request of list_jobs can come to. *)
ListResponses ==
    {[kind |-> "json", status |-> 200, errors |-> <<>>, jobs |-> js] :
         js \in JobLists}
    \cup {[kind |-> "transport_error", status |-> 0, errors |-> <<>>,
           jobs |-> <<>>]}

(* The two filter tests of the loop body, lines 254-263 *)
SlurmKept(job_data, user, state) ==
    /\ ~(Truthy(user) /\ job_data.user_name # user)
    /\ ~(Truthy(state) /\ SlurmNormalizeState(job_data.job_state) # state)

(* The loop `for job_data in jobs[:limit]` from entry i on; `window` is    *)
(* the list the loop runs over and acc the result so far.  The runtime of  *)
(* a job depends on the clock and is left out.                             *)
RECURSIVE SlurmListLoop(_, _, _, _, _)
SlurmListLoop(window, i, user, state, acc) ==
    IF i > Len(window) THEN acc
    ELSE LET job_data == window[i]
         IN  IF ~job_data.has_id
             THEN SlurmListLoop(window, i + 1, user, state, acc)
             ELSE IF ~SlurmKept(job_data, user, state)
             THEN SlurmListLoop(window, i + 1, user, state, acc)
             ELSE SlurmListLoop(window, i + 1, user, state,
                      Append(acc,
                          [job_id |-> i,
                           state |-> SlurmNormalizeState(job_data.job_state),
                           exit_code |-> NoInt]))

(* `jobs[:limit]`: the list the loop of list_jobs runs over *)
LoopWindow(jobs_, limit) == Slice(jobs_, limit)

(* SlurmAdapter.list_jobs: the list returned for a response *)
SlurmListResult(jobs_, user, state, limit) ==
    Slice(SlurmListLoop(LoopWindow(jobs_, limit), 1, user, state, <<>>),
          limit)

(* The call whose response and arguments were drawn at the start. *)
SlurmListJobs ==
    /\ realRet.op = "call"
    /\ LET r == MakeRequest(realRet.resp)
       IN  realRet' =
             IF r.raised # "no"
             THEN [op |-> "list_jobs", adapter |-> "slurm",
                   raised |-> r.raised]
             ELSE [op |-> "list_jobs", adapter |-> "slurm", raised |-> "no",
                   response |-> r.json.jobs, user |-> realRet.user,
                   state |-> realRet.state, limit |-> realRet.limit,
                   result |-> SlurmListResult(r.json.jobs, realRet.user,
                                              realRet.state, realRet.limit)]
    /\ jwt_token' = TokenAfterRequest(jwt_token)
    /\ UNCHANGED <<globalVars, regVars, mockVars, toolVars, backendJobs,
                   frame, execLog, reader>>

SlurmListNext == SlurmListJobs

SlurmListInit ==
    /\ backendJobs = {}
    /\ jwt_token = None
    /\ realRet \in [op : {"call"}, resp : ListResponses,
                     user : {None, "alice"}, state : {None, "RUNNING"},
                     limit : {1, 2, 100}]
    /\ frame = IdleFrame
    /\ execLog = <<>>
    /\ reader = IdleReader

InitSlurmList ==
    /\ RegIdle
    /\ MockIdle
    /\ SlurmListInit
    /\ ToolIdle

SpecSlurmList == InitSlurmList /\ [][SlurmListNext]_vars

SlurmListed ==
    /\ realRet.op = "list_jobs"
    /\ realRet.adapter = "slurm"
    /\ realRet.raised = "no"

(* M: the jobs of the backend response that match the user and state       *)
(* filters.                                                                *)
Matching ==
    {i \in 1..Len(realRet.response) :
        /\ realRet.response[i].has_id
        /\ SlurmKept(realRet.response[i], realRet.user, realRet.state)}

(* C30: SlurmAdapter.list_jobs applies the limit to the filtered result:   *)
(* it returns min(limit, M) jobs, where M is the number of jobs in the     *)
(* backend response that match the user and state filters, so a matching   *)
(* job is omitted only when limit matching jobs are already returned.      *)
C30_LimitAfterFilter ==
    SlurmListed =>
        Len(realRet.result) = Min(realRet.limit, Cardinality(Matching))
====
